---- MODULE Spec2Model ----
(***************************************************************************)
(* Encrypted connection registry (ConfigManager), connection manager and   *)
(* pool (DatabaseManager, ConnectionInfo) and backend adapter              *)
(* (SQLAlchemyDriver) of db-connector-tool, as a state machine.            *)
(***************************************************************************)
EXTENDS Integers, Sequences, FiniteSets, TLC

VARIABLES connections,      \* registry file: ordered map name -> encrypted record
          connection_pool,  \* DatabaseManager.connection_pool: name -> ConnectionInfo
          statistics,       \* DatabaseManager._statistics
          made,             \* number of adapter objects constructed so far
          now,              \* the value time.time() returns
          legacy_connections, \* registry of the legacy manager (core/database.py)
          pending,          \* the ConfigManager.update_connection call in progress
          lock,             \* DatabaseManager._lock: the thread that holds it, and how often
          pc,               \* for each thread, the manager call it is in and how far it got
          crypto,           \* a string on its way through CryptoManager.encrypt and decrypt
          tool_config       \* registry file of db_connector_tool: version and connections

vars == <<connections, connection_pool, statistics, made, now, legacy_connections, pending, lock, pc, crypto, tool_config>>

----------------------------------------------------------------------------
(* Bounds of the model *)
MaxTime == 1
MaxDrivers == 2
MaxUse == 1
MaxPlainLen == 3

ConnNames == {"a", "b"}

----------------------------------------------------------------------------
(* Python values: a type tag and the characters of the value's repr *)
PyStr(s) == [t |-> "str", v |-> s]
PyInt(s) == [t |-> "int", v |-> s]
PyFloat(s) == [t |-> "float", v |-> s]
PyBool(b) == [t |-> "bool", v |-> IF b THEN <<"T", "r", "u", "e">>
                                        ELSE <<"F", "a", "l", "s", "e">>]

QUOTE == "\""
BACKSLASH == "\\"

\* str.lower() on the characters the model uses
LowerChar(c) ==
    CASE c = "S" -> "s"
      [] c = "Q" -> "q"
      [] c = "L" -> "l"
      [] c = "M" -> "m"
      [] c = "Y" -> "y"
      [] OTHER -> c

Lower(s) == [i \in 1..Len(s) |-> LowerChar(s[i])]

----------------------------------------------------------------------------
(* json.dumps / json.loads of one scalar *)
RECURSIVE JsonEscape(_)
JsonEscape(s) ==
    IF s = << >> THEN << >>
    ELSE IF Head(s) = QUOTE \/ Head(s) = BACKSLASH
         THEN <<BACKSLASH, Head(s)>> \o JsonEscape(Tail(s))
         ELSE <<Head(s)>> \o JsonEscape(Tail(s))

RECURSIVE JsonUnescape(_)
JsonUnescape(s) ==
    IF s = << >> THEN << >>
    ELSE IF Head(s) = BACKSLASH /\ Len(s) >= 2
         THEN <<s[2]>> \o JsonUnescape(Tail(Tail(s)))
         ELSE <<Head(s)>> \o JsonUnescape(Tail(s))

JsonTrue == <<"t", "r", "u", "e">>
JsonFalse == <<"f", "a", "l", "s", "e">>

JsonDumps(val) ==
    CASE val.t = "str" -> <<QUOTE>> \o JsonEscape(val.v) \o <<QUOTE>>
      [] val.t = "bool" -> IF val = PyBool(TRUE) THEN JsonTrue ELSE JsonFalse
      [] val.t = "int" -> val.v
      [] val.t = "float" -> val.v

\* json.loads that leaves the escape sequences of a string in place
JsonLoads_NoUnescape(text) ==
    IF Len(text) >= 2 /\ Head(text) = QUOTE
    THEN PyStr(SubSeq(text, 2, Len(text) - 1))
    ELSE IF text = JsonTrue THEN PyBool(TRUE)
    ELSE IF text = JsonFalse THEN PyBool(FALSE)
    ELSE IF \E i \in 1..Len(text) : text[i] \in {".", "e", "E"}
         THEN PyFloat(text)
         ELSE PyInt(text)

JsonLoads(text) ==
    IF Len(text) >= 2 /\ Head(text) = QUOTE
    THEN PyStr(JsonUnescape(SubSeq(text, 2, Len(text) - 1)))
    ELSE IF text = JsonTrue THEN PyBool(TRUE)
    ELSE IF text = JsonFalse THEN PyBool(FALSE)
    ELSE IF \E i \in 1..Len(text) : text[i] \in {".", "e", "E"}
         THEN PyFloat(text)
         ELSE PyInt(text)

\* ConfigManager._serialize_value: the JSON document {"type": ..., "value": ...}
SerializeValue(val) == [type |-> val.t, value |-> JsonDumps(val)]

\* ConfigManager._deserialize_value: json.loads(json_str)["value"]
DeserializeValue(doc) == JsonLoads(doc.value)

----------------------------------------------------------------------------
(* CryptoManager: authenticated symmetric encryption under the engine's key *)
\* CryptoManager._create_fernet_instance: the key that PBKDF2 derives from the
\* password and the salt, a different key for every different pair
create_fernet_instance(password, salt) == [password |-> password, salt |-> salt]

\* the key of the engine that ConfigManager loads from encryption.key
ConfigKey == create_fernet_instance("pw1", <<1>>)

Encrypt(key, data) == [key |-> key, data |-> data]

DecryptOk(key, token) == token.key = key

Decrypt(key, token) == token.data

\* The characters of the strings given to CryptoManager.encrypt: a letter, a
\* quote, and two characters outside ASCII (U+00E9, U+6D4B)
CryptoChars == {"a", QUOTE, "U+00E9", "U+6D4B"}

\* str.encode("utf-8") of one character
Utf8Bytes(c) ==
    CASE c = "a" -> <<97>>
      [] c = QUOTE -> <<34>>
      [] c = "U+00E9" -> <<195, 169>>
      [] c = "U+6D4B" -> <<230, 181, 139>>

RECURSIVE Utf8Encode(_)
Utf8Encode(s) == IF s = << >> THEN << >> ELSE Utf8Bytes(Head(s)) \o Utf8Encode(Tail(s))

\* bytes.decode("utf-8"): the first byte tells the length of the character
RECURSIVE Utf8Decode(_)
Utf8Decode(b) ==
    IF b = << >> THEN << >>
    ELSE LET n == IF b[1] < 128 THEN 1 ELSE IF b[1] < 224 THEN 2 ELSE 3
         IN <<CHOOSE c \in CryptoChars : Utf8Bytes(c) = SubSeq(b, 1, n)>>
            \o Utf8Decode(SubSeq(b, n + 1, Len(b)))

\* the empty string where a token is expected
EmptyToken == [key |-> create_fernet_instance("", << >>), data |-> << >>]

\* CryptoManager.encrypt
crypto_encrypt(key, data) ==
    IF data = << >> THEN [err |-> "ValueError", token |-> EmptyToken]
    ELSE [err |-> "none", token |-> Encrypt(key, Utf8Encode(data))]

\* a decrypt that returns the plaintext without authenticating the token
crypto_decrypt_NoAuth(key, token) ==
    IF token = EmptyToken THEN [err |-> "ValueError", data |-> << >>]
    ELSE [err |-> "none", data |-> Utf8Decode(Decrypt(key, token))]

\* CryptoManager.decrypt
crypto_decrypt(key, token) ==
    IF token = EmptyToken THEN [err |-> "ValueError", data |-> << >>]
    ELSE IF ~DecryptOk(key, token) THEN [err |-> "CryptoError", data |-> << >>]
    ELSE [err |-> "none", data |-> Utf8Decode(Decrypt(key, token))]

\* base64.urlsafe_b64encode: three bytes become four characters, written as
\* their index 0..63 in the alphabet, and 64 is the padding character "="
RECURSIVE B64Encode(_)
B64Encode(b) ==
    IF b = << >> THEN << >>
    ELSE LET n == Len(b)
             v == b[1] * 65536 + (IF n >= 2 THEN b[2] ELSE 0) * 256
                  + (IF n >= 3 THEN b[3] ELSE 0)
         IN <<v \div 262144, (v \div 4096) % 64,
              IF n >= 2 THEN (v \div 64) % 64 ELSE 64,
              IF n >= 3 THEN v % 64 ELSE 64>>
            \o B64Encode(SubSeq(b, 4, n))

\* base64.urlsafe_b64decode
RECURSIVE B64Decode(_)
B64Decode(s) ==
    IF s = << >> THEN << >>
    ELSE LET v == s[1] * 262144 + s[2] * 4096
                  + (IF s[3] = 64 THEN 0 ELSE s[3]) * 64
                  + (IF s[4] = 64 THEN 0 ELSE s[4])
         IN <<v \div 65536>>
            \o (IF s[3] = 64 THEN << >> ELSE <<(v \div 256) % 256>>)
            \o (IF s[4] = 64 THEN << >> ELSE <<v % 256>>)
            \o B64Decode(SubSeq(s, 5, Len(s)))

\* CryptoManager.get_key_info of the engine with this password and salt
get_key_info(password, salt) == [salt |-> B64Encode(salt), password |-> password]

\* a from_saved_key that takes the saved salt string for the salt itself
from_saved_key_RawSalt(password, salt) ==
    IF password = "" \/ salt = << >>
    THEN [err |-> "ValueError", key |-> EmptyToken.key]
    ELSE [err |-> "none", key |-> create_fernet_instance(password, salt)]

\* CryptoManager.from_saved_key: the error it raises and the key of the engine
\* it returns
from_saved_key(password, salt) ==
    IF password = "" \/ salt = << >>
    THEN [err |-> "ValueError", key |-> EmptyToken.key]
    ELSE [err |-> "none", key |-> create_fernet_instance(password, B64Decode(salt))]

NoCrypto == [step |-> "none", plain |-> << >>, token |-> EmptyToken, out |-> << >>,
             err |-> "none"]

----------------------------------------------------------------------------
(* Connection definitions offered by callers *)
S_sqlite == <<"s", "q", "l", "i", "t", "e">>
S_mysql == <<"m", "y", "s", "q", "l">>
S_oracle == <<"o", "r", "a", "c", "l", "e">>
S_postgresql == <<"p", "o", "s", "t", "g", "r", "e", "s", "q", "l">>
S_mssql == <<"m", "s", "s", "q", "l">>
S_memory == <<":", "m", "e", "m", "o", "r", "y", ":">>

SUPPORTED_DATABASE_TYPES == {S_oracle, S_postgresql, S_mysql, S_mssql, S_sqlite}

CfgEmpty == << >>
CfgSqliteNoDb == ("type" :> PyStr(S_sqlite))
CfgSqliteMem == ("type" :> PyStr(S_sqlite)) @@ ("database" :> PyStr(S_memory))
CfgSqliteUpper == ("type" :> PyStr(<<"S", "Q", "L", "i", "t", "e">>))
CfgMysqlFull ==
    ("type" :> PyStr(S_mysql)) @@ ("host" :> PyStr(<<"h">>))
    @@ ("username" :> PyStr(<<"u">>)) @@ ("password" :> PyStr(<<"p", QUOTE, BACKSLASH>>))
    @@ ("database" :> PyStr(<<"7">>)) @@ ("port" :> PyInt(<<"7">>))
    @@ ("timeout" :> PyFloat(<<"1", ".", "5">>)) @@ ("echo_sql" :> PyBool(TRUE))
CfgMysql ==
    ("type" :> PyStr(S_mysql)) @@ ("host" :> PyStr(<<"h">>))
    @@ ("username" :> PyStr(<<"u">>)) @@ ("password" :> PyStr(<<"p">>))
    @@ ("database" :> PyStr(<<"d">>))
CfgMysqlNoDb ==
    ("type" :> PyStr(S_mysql)) @@ ("host" :> PyStr(<<"h">>))
    @@ ("username" :> PyStr(<<"u">>)) @@ ("password" :> PyStr(<<"t", "r", "u", "e">>))
CfgMysqlNoHost ==
    ("type" :> PyStr(S_mysql)) @@ ("username" :> PyStr(<<"u">>))
    @@ ("password" :> PyStr(<<"p">>)) @@ ("database" :> PyStr(<<"d">>))
CfgOracle ==
    ("type" :> PyStr(S_oracle)) @@ ("host" :> PyStr(<<"h">>))
    @@ ("username" :> PyStr(<<"u">>)) @@ ("password" :> PyStr(<<"p">>))
CfgPostgresql ==
    ("type" :> PyStr(S_postgresql)) @@ ("host" :> PyStr(<<"h">>))
    @@ ("username" :> PyStr(<<"u">>)) @@ ("password" :> PyStr(<<"p">>))
    @@ ("database" :> PyStr(<<"d">>))
CfgMssql ==
    ("type" :> PyStr(S_mssql)) @@ ("host" :> PyStr(<<"h">>))
    @@ ("username" :> PyStr(<<"u">>)) @@ ("password" :> PyStr(<<"p">>))
    @@ ("database" :> PyStr(<<"d">>))
CfgInvalidType == ("type" :> PyStr(<<"x">>))
CfgNoType ==
    ("host" :> PyStr(<<"1", ".", "5">>)) @@ ("port" :> PyInt(<<"-", "3">>))
    @@ ("timeout" :> PyFloat(<<"1", "e", "+", "1", "6">>)) @@ ("echo_sql" :> PyBool(FALSE))
    @@ ("database" :> PyStr(<< >>))
CfgTypeInt == ("type" :> PyInt(<<"5">>))

ManagerConfigs == {CfgMysql, CfgInvalidType}

Configs == {CfgEmpty, CfgSqliteNoDb, CfgSqliteMem, CfgSqliteUpper, CfgMysqlFull, CfgMysql,
            CfgMysqlNoDb, CfgMysqlNoHost, CfgOracle, CfgPostgresql, CfgMssql,
            CfgInvalidType, CfgNoType, CfgTypeInt}

Has(cfg, k) == k \in DOMAIN cfg

\* dict.__setitem__
Put(cfg, k, val) == [x \in (DOMAIN cfg) \cup {k} |-> IF x = k THEN val ELSE cfg[x]]

\* {**base, **over}
Merge(base, over) ==
    [x \in (DOMAIN base) \cup (DOMAIN over) |-> IF x \in DOMAIN over THEN over[x] ELSE base[x]]

----------------------------------------------------------------------------
(* ConfigManager: the registry *)
NameIndex(conns, n) == {i \in 1..Len(conns) : conns[i].name = n}

HasName(conns, n) == NameIndex(conns, n) # {}

Record(conns, n) == conns[CHOOSE i \in NameIndex(conns, n) : TRUE].fields

\* a list_connections that returns the names last-stored first
list_connections_Reversed(conns) == [i \in 1..Len(conns) |-> conns[Len(conns) + 1 - i].name]

\* ConfigManager.list_connections
list_connections(conns) == [i \in 1..Len(conns) |-> conns[i].name]

NamesOf(conns) == {conns[i].name : i \in 1..Len(conns)}

EncryptConfig(cfg) == [k \in DOMAIN cfg |-> Encrypt(ConfigKey, SerializeValue(cfg[k]))]

DecryptConfig(rec) == [k \in DOMAIN rec |-> DeserializeValue(Decrypt(ConfigKey, rec[k]))]

RemoveAt(conns, n) == SelectSeq(conns, LAMBDA e : e.name # n)

\* ConfigManager.add_connection that writes without looking for the name
CM_add_NoDuplicateCheck(conns, name, cfg) ==
    IF name = "" THEN [err |-> "ValueError", conns |-> conns]
    ELSE IF cfg = << >> THEN [err |-> "ValueError", conns |-> conns]
    ELSE [err |-> "none",
          conns |-> Append(RemoveAt(conns, name),
                           [name |-> name, fields |-> EncryptConfig(cfg)])]

\* ConfigManager.add_connection
CM_add(conns, name, cfg) ==
    IF name = "" THEN [err |-> "ValueError", conns |-> conns]
    ELSE IF cfg = << >> THEN [err |-> "ValueError", conns |-> conns]
    ELSE IF HasName(conns, name) THEN [err |-> "ConfigError", conns |-> conns]
    ELSE [err |-> "none",
          conns |-> Append(conns, [name |-> name, fields |-> EncryptConfig(cfg)])]

\* ConfigManager.get_connection
CM_get(conns, name) ==
    IF name = "" THEN [err |-> "ValueError", cfg |-> << >>]
    ELSE IF ~HasName(conns, name) THEN [err |-> "ConfigError", cfg |-> << >>]
    ELSE IF \E k \in DOMAIN Record(conns, name) : ~DecryptOk(ConfigKey, Record(conns, name)[k])
         THEN [err |-> "ConfigError", cfg |-> << >>]
    ELSE [err |-> "none", cfg |-> DecryptConfig(Record(conns, name))]

\* a read that saves the file again without the record it has read
CM_after_read_Consuming(conns, name) == RemoveAt(conns, name)

\* the registry file after ConfigManager.get_connection(name) or
\* list_connections(): both call _load_config and neither calls _save_config
CM_after_read(conns, name) == conns

\* ConfigManager.remove_connection
CM_remove(conns, name) ==
    IF name = "" THEN [err |-> "ValueError", conns |-> conns]
    ELSE IF ~HasName(conns, name) THEN [err |-> "ConfigError", conns |-> conns]
    ELSE [err |-> "none", conns |-> RemoveAt(conns, name)]

\* an update that writes the new fields over the stored record where it stands
CM_update_InPlace(conns, name, cfg) ==
    IF name = "" THEN [err |-> "ValueError", conns |-> conns]
    ELSE IF cfg = << >> THEN [err |-> "ValueError", conns |-> conns]
    ELSE IF ~HasName(conns, name) THEN [err |-> "ConfigError", conns |-> conns]
    ELSE [err |-> "none",
          conns |-> [i \in 1..Len(conns) |->
                        IF conns[i].name = name
                        THEN [name |-> name,
                              fields |-> Merge(conns[i].fields, EncryptConfig(cfg))]
                        ELSE conns[i]]]

\* ConfigManager.update_connection: remove, then add; every failure becomes ConfigError
CM_update(conns, name, cfg) ==
    IF name = "" THEN [err |-> "ValueError", conns |-> conns]
    ELSE IF cfg = << >> THEN [err |-> "ValueError", conns |-> conns]
    ELSE LET r == CM_remove(conns, name) IN
         IF r.err # "none" THEN [err |-> "ConfigError", conns |-> conns]
         ELSE LET a == CM_add(r.conns, name, cfg) IN
              IF a.err # "none" THEN [err |-> "ConfigError", conns |-> r.conns]
              ELSE [err |-> "none", conns |-> a.conns]

\* a first step of update_connection that has not yet written the removal
update_first_step_Deferred(conns, name, cfg) ==
    IF name = "" THEN [err |-> "ValueError", conns |-> conns]
    ELSE IF cfg = << >> THEN [err |-> "ValueError", conns |-> conns]
    ELSE [err |-> IF CM_remove(conns, name).err # "none" THEN "ConfigError" ELSE "none",
          conns |-> conns]

\* ConfigManager.update_connection up to the return of self.remove_connection,
\* which has saved the file without the name
update_first_step(conns, name, cfg) ==
    IF name = "" THEN [err |-> "ValueError", conns |-> conns]
    ELSE IF cfg = << >> THEN [err |-> "ValueError", conns |-> conns]
    ELSE [err |-> IF CM_remove(conns, name).err # "none" THEN "ConfigError" ELSE "none",
          conns |-> CM_remove(conns, name).conns]

\* ConfigManager.update_connection from the call of self.add_connection on;
\* saved is whether add_connection gets to save the file
update_second_step(conns, name, cfg, saved) ==
    IF saved /\ CM_add(conns, name, cfg).err = "none"
    THEN [err |-> "none", conns |-> CM_add(conns, name, cfg).conns]
    ELSE [err |-> "ConfigError", conns |-> conns]

\* no update_connection call is in progress
NoUpdate == [phase |-> "idle", name |-> "", cfg |-> << >>]

----------------------------------------------------------------------------
(* DatabaseManager._validate_basic_config.  The dictionary is changed in   *)
(* place, so the result carries the dictionary as the caller sees it.      *)
TypeOf(cfg) == IF Has(cfg, "type") THEN cfg["type"] ELSE PyStr(<< >>)

WithDefaults(cfg, db_type) ==
    IF db_type = S_oracle /\ ~Has(cfg, "service_name")
    THEN Put(cfg, "service_name", PyStr(<<"X", "E">>))
    ELSE IF db_type = S_postgresql /\ ~Has(cfg, "gssencmode")
    THEN Put(cfg, "gssencmode", PyStr(<<"d", "i", "s", "a", "b", "l", "e">>))
    ELSE IF db_type = S_mssql
    THEN LET c1 == IF Has(cfg, "charset") THEN cfg
                   ELSE Put(cfg, "charset", PyStr(<<"c", "p", "9", "3", "6">>))
         IN IF Has(c1, "tds_version") THEN c1
            ELSE Put(c1, "tds_version", PyStr(<<"7", ".", "0">>))
    ELSE cfg

RequiredFields == {"username", "password", "host"}

validate_basic_config(cfg) ==
    IF cfg = << >> THEN [err |-> "ConfigError", cfg |-> cfg]
    ELSE IF TypeOf(cfg).t # "str" THEN [err |-> "AttributeError", cfg |-> cfg]
    ELSE LET db_type == Lower(TypeOf(cfg).v) IN
         IF db_type \notin SUPPORTED_DATABASE_TYPES THEN [err |-> "ConfigError", cfg |-> cfg]
         ELSE IF db_type = S_sqlite /\ ~Has(cfg, "database")
         THEN [err |-> "none", cfg |-> Put(cfg, "database", PyStr(S_memory))]
         ELSE LET c1 == WithDefaults(cfg, db_type) IN
              IF RequiredFields \ DOMAIN c1 # {}
              THEN [err |-> "ConfigError", cfg |-> c1]
              ELSE [err |-> "none", cfg |-> c1]

----------------------------------------------------------------------------
(* SQLAlchemyDriver *)
DbType(cfg) == IF TypeOf(cfg).t = "str" THEN Lower(TypeOf(cfg).v) ELSE << >>

\* SQLAlchemyDriver.__init__: the error it raises, "none" when it constructs
DriverInitErr(cfg) ==
    IF cfg = << >> THEN "ValueError"
    ELSE IF TypeOf(cfg).t # "str" THEN "AttributeError"
    ELSE IF DbType(cfg) \notin SUPPORTED_DATABASE_TYPES THEN "DriverError"
    ELSE "none"

NewDriver(id, cfg, over) ==
    [id |-> id, connection_config |-> cfg, engine |-> "None", session_factory |-> "None",
     connected |-> FALSE, from_overrides |-> over]

\* SQLAlchemyDriver._build_connection_url: the fields it requires
UrlRequired(db_type) ==
    {"username", "password", "host"}
    \cup (IF db_type = S_oracle THEN {"service_name"} ELSE {"database"})
    \cup (IF db_type = S_postgresql THEN {"gssencmode"} ELSE {})
    \cup (IF db_type = S_mssql THEN {"charset", "tds_version"} ELSE {})

BuildUrlErr(cfg) ==
    IF DbType(cfg) = S_sqlite THEN "none"
    ELSE IF UrlRequired(DbType(cfg)) \ DOMAIN cfg # {} THEN "DriverError"
    ELSE "none"

\* What the backend and the engine library can do during connect():
\*   ok                engine created, probe passes
\*   sqlalchemy_error  create_engine or the probe raises an SQLAlchemyError
\*   import_error      create_engine raises an error outside SQLAlchemyError
\* An in-memory sqlite database has no backend that can be down.
InMemory(cfg) ==
    DbType(cfg) = S_sqlite /\ (Has(cfg, "database") => cfg["database"] = PyStr(S_memory))

ConnectEnv == {"ok", "sqlalchemy_error", "import_error"}

\* What releasing the resources can do during disconnect(): succeed, or
\* session_factory.remove(), the first release, raises
DisconnectEnv == {"ok", "remove_raises"}

\* SQLAlchemyDriver._cleanup_resources without a failure
Cleaned(d) == [d EXCEPT !.engine = "None", !.session_factory = "None", !.connected = FALSE]

\* SQLAlchemyDriver._perform_connection_test
perform_connection_test(d, up) ==
    d.engine # "None" /\ (up \/ InMemory(d.connection_config))

\* SQLAlchemyDriver.connect
connect(d, env) ==
    IF d.connected THEN [err |-> "none", d |-> d]
    ELSE IF BuildUrlErr(d.connection_config) # "none"
    THEN [err |-> "DriverError", d |-> d]
    ELSE IF InMemory(d.connection_config)
    THEN [err |-> "none",
          d |-> [d EXCEPT !.engine = "Engine", !.session_factory = "Factory",
                          !.connected = TRUE]]
    ELSE IF env = "import_error" THEN [err |-> "ImportError", d |-> d]
    ELSE IF env = "sqlalchemy_error" THEN [err |-> "ConnectionError", d |-> Cleaned(d)]
    ELSE [err |-> "none",
          d |-> [d EXCEPT !.engine = "Engine", !.session_factory = "Factory",
                          !.connected = TRUE]]

\* SQLAlchemyDriver.disconnect
disconnect(d, env) ==
    IF ~d.connected THEN [err |-> "none", d |-> d]
    ELSE IF env = "remove_raises" /\ d.session_factory # "None"
    THEN [err |-> "ConnectionError", d |-> d]
    ELSE [err |-> "none", d |-> Cleaned(d)]

\* an is_connected that returns the cached flag without probing
is_connected_CachedFlag(d, up) == [ret |-> d.connected, d |-> d]

\* SQLAlchemyDriver.is_connected
is_connected(d, up) ==
    IF ~d.connected THEN [ret |-> FALSE, d |-> d]
    ELSE IF perform_connection_test(d, up) THEN [ret |-> TRUE, d |-> d]
    ELSE [ret |-> FALSE, d |-> [d EXCEPT !.connected = FALSE]]

\* SQLAlchemyDriver.test_connection; err is the exception that leaves it
test_connection(d, env, up) ==
    LET c == IF d.connected THEN [err |-> "none", d |-> d] ELSE connect(d, env) IN
    IF c.err # "none" THEN [err |-> "none", ret |-> FALSE, d |-> c.d]
    ELSE [err |-> "none", ret |-> perform_connection_test(c.d, up), d |-> c.d]

----------------------------------------------------------------------------
(* ConnectionInfo.  created_at is written once by the constructor and read *)
(* only by get_connection_info; it is not part of the model.               *)
ConnectionInfo(d, t) ==
    [driver |-> d, last_used |-> t, use_count |-> 0, is_active |-> TRUE]

mark_used(info, t) == [info EXCEPT !.last_used = t, !.use_count = @ + 1]

----------------------------------------------------------------------------
(* DatabaseManager.  Its own state is handled as one record                *)
(* [pool, stats, made] so that a handler can thread it through its calls.  *)
(* A pool entry holds the adapter object itself; an adapter's id is its    *)
(* ordinal among the adapters constructed so far (made), which tells       *)
(* instances apart.                                                        *)
Without(pool, n) == [x \in (DOMAIN pool) \ {n} |-> pool[x]]

PooledIds(pool) == {pool[n].driver.id : n \in DOMAIN pool}

\* DatabaseManager._cleanup_connection
cleanup_connection(st, name, up, denv) ==
    IF name \notin DOMAIN st.pool THEN st
    ELSE LET ic == is_connected(st.pool[name].driver, up)
             dc == IF ic.ret THEN disconnect(ic.d, denv) ELSE [err |-> "none", d |-> ic.d]
         IN IF dc.err # "none"
            THEN [st EXCEPT !.pool[name].driver = dc.d]
            ELSE [st EXCEPT !.pool = Without(st.pool, name),
                            !.stats.total_connections_closed = @ + 1]

\* an existence check that lets every name through
validate_connection_exists_Skipped(conns, name) == "none"

\* DatabaseManager._validate_connection_exists: the error it raises
validate_connection_exists(conns, name) ==
    IF HasName(conns, name) THEN "none" ELSE "ConfigError"

\* the two except clauses of get_connection
Raised(st, err) ==
    IF err \in {"ConfigError", "ConnectionError"}
    THEN [err |-> err, st |-> st]
    ELSE [err |-> "DatabaseError",
          st |-> [st EXCEPT !.stats.connection_errors = @ + 1]]

GetRes(e, driver, constructed, probe) ==
    [err |-> e.err, st |-> e.st, driver |-> driver, constructed |-> constructed,
     probe |-> probe]

\* the construction of an adapter that pools the adapter in every case
OpenNew_AlwaysPools(st, name, cfg, over, cenv, t, probe) ==
    IF DriverInitErr(cfg) # "none"
    THEN GetRes(Raised(st, DriverInitErr(cfg)), 0, 0, probe)
    ELSE LET id == st.made + 1
             st2 == [st EXCEPT !.made = id]
             c == connect(NewDriver(id, cfg, over), cenv)
         IN IF c.err # "none" THEN GetRes(Raised(st2, c.err), 0, 1, probe)
            ELSE GetRes([err |-> "none",
                         st |-> [st2 EXCEPT !.pool = Put(st.pool, name, ConnectionInfo(c.d, t)),
                                            !.stats.total_connections_created = @ + 1]],
                        id, 1, probe)

\* construct an adapter from cfg, connect it, and pool it unless it is temporary
OpenNew(st, name, cfg, over, cenv, t, probe) ==
    IF DriverInitErr(cfg) # "none"
    THEN GetRes(Raised(st, DriverInitErr(cfg)), 0, 0, probe)
    ELSE LET id == st.made + 1
             st2 == [st EXCEPT !.made = id]
             c == connect(NewDriver(id, cfg, over), cenv)
         IN IF c.err # "none" THEN GetRes(Raised(st2, c.err), 0, 1, probe)
            ELSE IF over
            THEN GetRes([err |-> "none", st |-> st2], id, 1, probe)
            ELSE GetRes([err |-> "none",
                         st |-> [st2 EXCEPT !.pool = Put(st.pool, name, ConnectionInfo(c.d, t)),
                                            !.stats.total_connections_created = @ + 1]],
                        id, 1, probe)

\* DatabaseManager.get_connection
get_connection(st, conns, name, over, env, t) ==
    IF validate_connection_exists(conns, name) # "none"
    THEN GetRes([err |-> "ConfigError", st |-> st], 0, 0, "none")
    ELSE LET base == CM_get(conns, name) IN
    IF over # << >>
    THEN LET st1 == cleanup_connection(st, name, env.up2, env.denv)
             v == validate_basic_config(Merge(base.cfg, over))
         IN IF base.err # "none" THEN GetRes(Raised(st1, base.err), 0, 0, "none")
            ELSE IF v.err # "none" THEN GetRes(Raised(st1, v.err), 0, 0, "none")
            ELSE OpenNew(st1, name, v.cfg, TRUE, env.cenv2, t, "none")
    ELSE LET pooled == name \in DOMAIN st.pool
             tc == test_connection(st.pool[name].driver, env.cenv1, env.up1)
             valid == pooled /\ st.pool[name].is_active /\ tc.ret
             stT == [st EXCEPT !.pool[name].driver = tc.d]
             st1 == IF pooled THEN cleanup_connection(stT, name, env.up2, env.denv) ELSE st
             probe == IF pooled THEN "fail" ELSE "none"
         IN IF valid
            THEN GetRes([err |-> "none",
                         st |-> [stT EXCEPT !.pool[name] = mark_used(@, t)]],
                        tc.d.id, 0, "pass")
            ELSE IF base.err # "none" THEN GetRes(Raised(st1, base.err), 0, 0, probe)
            ELSE OpenNew(st1, name, base.cfg, FALSE, env.cenv2, t, probe)

\* DatabaseManager.add_connection
add_connection(conns, name, cfg) ==
    IF HasName(conns, name) THEN [err |-> "ConfigError", conns |-> conns, cfg |-> cfg]
    ELSE LET v == validate_basic_config(cfg)
             a == CM_add(conns, name, v.cfg)
         IN IF v.err # "none"
            THEN [err |-> IF v.err = "ConfigError" THEN "ConfigError" ELSE "DatabaseError",
                  conns |-> conns, cfg |-> v.cfg]
            ELSE IF a.err # "none"
            THEN [err |-> IF a.err = "ConfigError" THEN "ConfigError" ELSE "DatabaseError",
                  conns |-> conns, cfg |-> v.cfg]
            ELSE [err |-> "none", conns |-> a.conns, cfg |-> v.cfg]

\* DatabaseManager.remove_connection
remove_connection(st, conns, name, up, denv) ==
    IF validate_connection_exists(conns, name) # "none"
    THEN [err |-> "ConfigError", st |-> st, conns |-> conns]
    ELSE LET st1 == cleanup_connection(st, name, up, denv)
             r == CM_remove(conns, name)
         IN [err |-> IF r.err \in {"none", "ConfigError"} THEN r.err ELSE "DatabaseError",
             st |-> st1, conns |-> r.conns]

\* an update_connection that closes the pooled adapter before it validates
update_connection_CleanupFirst(st, conns, name, cfg, up, denv) ==
    IF validate_connection_exists(conns, name) # "none"
    THEN [err |-> "ConfigError", st |-> st, conns |-> conns]
    ELSE LET v == validate_basic_config(cfg)
             st1 == cleanup_connection(st, name, up, denv)
             u == CM_update(conns, name, v.cfg)
         IN IF v.err # "none"
            THEN [err |-> IF v.err = "ConfigError" THEN "ConfigError" ELSE "DatabaseError",
                  st |-> st1, conns |-> conns]
            ELSE [err |-> IF u.err \in {"none", "ConfigError"} THEN u.err ELSE "DatabaseError",
                  st |-> st1, conns |-> u.conns]

\* DatabaseManager.update_connection
update_connection(st, conns, name, cfg, up, denv) ==
    IF validate_connection_exists(conns, name) # "none"
    THEN [err |-> "ConfigError", st |-> st, conns |-> conns]
    ELSE LET v == validate_basic_config(cfg)
             st1 == cleanup_connection(st, name, up, denv)
             u == CM_update(conns, name, v.cfg)
         IN IF v.err # "none"
            THEN [err |-> IF v.err = "ConfigError" THEN "ConfigError" ELSE "DatabaseError",
                  st |-> st, conns |-> conns]
            ELSE [err |-> IF u.err \in {"none", "ConfigError"} THEN u.err ELSE "DatabaseError",
                  st |-> st1, conns |-> u.conns]

\* the loop of close_all_connections / cleanup_idle_connections over the names in S
RECURSIVE cleanup_each(_, _, _)
cleanup_each(st, S, f) ==
    IF S = {} THEN st
    ELSE LET n == CHOOSE x \in S : TRUE IN
         cleanup_each(cleanup_connection(st, n, f[n].up, f[n].denv), S \ {n}, f)

\* DatabaseManager.close_all_connections
close_all_connections(st, f) == cleanup_each(st, DOMAIN st.pool, f)

\* DatabaseManager.cleanup_idle_connections: the names it selects
Idle(pool, t, max_idle_time) == {n \in DOMAIN pool : (t - pool[n].last_used) > max_idle_time}

cleanup_idle_connections(st, t, max_idle_time, f) ==
    [st |-> cleanup_each(st, Idle(st.pool, t, max_idle_time), f),
     count |-> Cardinality(Idle(st.pool, t, max_idle_time))]

\* DatabaseManager.execute_query and execute_command: get the adapter and run
\* the statement inside "with driver:", whose exit disconnects the adapter.
\* qenv is what the statement does, denv2 what the disconnect at exit does.
ExecuteEnv ==
    {[qenv |-> "ok", denv2 |-> "ok"], [qenv |-> "QueryError", denv2 |-> "ok"],
     [qenv |-> "ok", denv2 |-> "remove_raises"]}

execute(g, name, x) ==
    IF g.err # "none" THEN [err |-> g.err, st |-> g.st]
    ELSE LET dc == disconnect(g.st.pool[name].driver, x.denv2)
             st2 == [g.st EXCEPT !.pool[name].driver = dc.d]
         IN IF dc.err # "none" THEN [err |-> "ConnectionError", st |-> st2]
            ELSE IF x.qenv # "ok" THEN [err |-> "DatabaseError", st |-> st2]
            ELSE [err |-> "none", st |-> st2]

\* a test_connection that lets the error of get_connection through
db_test_connection_Propagates(g, name, up3) ==
    IF g.err # "none" THEN [err |-> g.err, ret |-> FALSE, st |-> g.st]
    ELSE LET tc == test_connection(g.st.pool[name].driver, "ok", up3)
         IN [err |-> tc.err, ret |-> tc.ret,
             st |-> [g.st EXCEPT !.pool[name].driver = tc.d]]

\* DatabaseManager.test_connection: get the adapter and probe it; err is the
\* exception that leaves it
db_test_connection(g, name, up3) ==
    IF g.err # "none" THEN [err |-> "none", ret |-> FALSE, st |-> g.st]
    ELSE LET tc == test_connection(g.st.pool[name].driver, "ok", up3)
         IN [err |-> "none", ret |-> tc.ret,
             st |-> [g.st EXCEPT !.pool[name].driver = tc.d]]

----------------------------------------------------------------------------
(* The legacy manager of core/database.py over the legacy ConfigManager *)
LegacyRequired == {"host", "username", "password", "database"}

\* DatabaseManager._validate_connection_config (core/database.py)
validate_connection_config(cfg) ==
    IF ~Has(cfg, "type") THEN "ConfigError"
    ELSE IF cfg["type"].t # "str" THEN "AttributeError"
    ELSE IF Lower(cfg["type"].v) \notin SUPPORTED_DATABASE_TYPES THEN "ConfigError"
    ELSE IF Lower(cfg["type"].v) # S_sqlite /\ LegacyRequired \ DOMAIN cfg # {}
    THEN "ConfigError"
    ELSE "none"

\* legacy ConfigManager.add_connection: only the password is encrypted, and an
\* existing name is overwritten in place
LegacyStore(conns, name, cfg) ==
    LET rec == [k \in DOMAIN cfg |->
                   IF k = "password" THEN Encrypt(ConfigKey, cfg[k]) ELSE cfg[k]]
    IN IF HasName(conns, name)
       THEN [i \in 1..Len(conns) |->
                IF conns[i].name = name THEN [name |-> name, fields |-> rec] ELSE conns[i]]
       ELSE Append(conns, [name |-> name, fields |-> rec])

\* DatabaseManager.create_connection (core/database.py): every failure is
\* re-raised as DatabaseError
create_connection(conns, name, cfg) ==
    IF validate_connection_config(cfg) # "none"
    THEN [err |-> "DatabaseError", conns |-> conns]
    ELSE IF Has(cfg, "password") /\ (cfg["password"].t # "str" \/ cfg["password"].v = << >>)
    THEN [err |-> "DatabaseError", conns |-> conns]
    ELSE [err |-> "none", conns |-> LegacyStore(conns, name, cfg)]

\* DatabaseManager.remove_connection (core/database.py)
legacy_remove_connection(conns, name) ==
    IF ~HasName(conns, name) THEN [err |-> "DatabaseError", conns |-> conns]
    ELSE [err |-> "none", conns |-> RemoveAt(conns, name)]

----------------------------------------------------------------------------
(* ConfigManager of db_connector_tool: the registry file carries a version  *)
(* string "x.y.z" that add_connection steps.  A string is the sequence of   *)
(* its characters.                                                          *)
Digits == <<"0", "1", "2", "3", "4", "5", "6", "7", "8", "9">>

\* str.split(".")
RECURSIVE SplitDots(_)
SplitDots(s) ==
    IF s = << >> THEN << << >> >>
    ELSE LET rest == SplitDots(Tail(s)) IN
         IF Head(s) = "." THEN << << >> >> \o rest
         ELSE << <<Head(s)>> \o Head(rest) >> \o Tail(rest)

\* int(s) returns for a string of decimal digits and raises ValueError for
\* every other string over the digits and "."
IsDecimal(s) == s # << >> /\ \A i \in 1..Len(s) : \E d \in 1..10 : s[i] = Digits[d]

DigitValue(c) == (CHOOSE d \in 1..10 : Digits[d] = c) - 1

RECURSIVE ParseInt(_)
ParseInt(s) ==
    IF s = << >> THEN 0
    ELSE 10 * ParseInt(SubSeq(s, 1, Len(s) - 1)) + DigitValue(s[Len(s)])

\* f"{n}" of an int that is not negative
RECURSIVE FormatInt(_)
FormatInt(n) ==
    IF n < 10 THEN <<Digits[n + 1]>>
    ELSE FormatInt(n \div 10) \o <<Digits[(n % 10) + 1]>>

\* _create_default_config
default_config == [version |-> <<"1", ".", "0", ".", "0">>, connections |-> << >>]

\* a version step that counts the patch component on without a carry
increment_config_version_NoCarry(current_version) ==
    LET version_parts == SplitDots(current_version) IN
    [err |-> "none",
     version |-> version_parts[1] \o <<".">> \o version_parts[2] \o <<".">>
                    \o FormatInt(ParseInt(version_parts[3]) + 1)]

\* ConfigManager._increment_config_version: the version it leaves in the
\* config dict, and the ConfigError it raises
increment_config_version(current_version) ==
    LET version_parts == SplitDots(current_version) IN
    IF Len(version_parts) = 3
    THEN IF \E i \in 1..3 : ~IsDecimal(version_parts[i])
         THEN [err |-> "none", version |-> current_version]
         ELSE LET original_major == ParseInt(version_parts[1])
                  carry == ParseInt(version_parts[3]) + 1 >= 10
                  patch_num == IF carry THEN 0 ELSE ParseInt(version_parts[3]) + 1
                  minor_num == IF carry THEN ParseInt(version_parts[2]) + 1
                               ELSE ParseInt(version_parts[2])
              IN IF carry /\ minor_num >= 10 /\ original_major + 1 # original_major
                 THEN [err |-> "ConfigError", version |-> current_version]
                 ELSE [err |-> "none",
                       version |-> FormatInt(original_major) \o <<".">>
                                      \o FormatInt(IF minor_num >= 10 THEN 0 ELSE minor_num)
                                      \o <<".">> \o FormatInt(patch_num)]
    ELSE [err |-> "none", version |-> current_version \o <<".", "1">>]

\* ConfigManager.add_connection of db_connector_tool: config is the file as
\* _save_config leaves it
Tool_add(config, name, cfg) ==
    IF name = "" THEN [err |-> "ValueError", config |-> config]
    ELSE IF cfg = << >> THEN [err |-> "ValueError", config |-> config]
    ELSE IF HasName(config.connections, name) THEN [err |-> "ConfigError", config |-> config]
    ELSE LET v == increment_config_version(config.version) IN
         IF v.err # "none" THEN [err |-> "ConfigError", config |-> config]
         ELSE [err |-> "none",
               config |-> [version |-> v.version,
                           connections |-> Append(config.connections,
                                                  [name |-> name,
                                                   fields |-> EncryptConfig(cfg)])]]

\* ConfigManager.remove_connection of db_connector_tool
Tool_remove(config, name) ==
    IF name = "" THEN [err |-> "ValueError", config |-> config]
    ELSE IF ~HasName(config.connections, name) THEN [err |-> "ConfigError", config |-> config]
    ELSE [err |-> "none",
          config |-> [config EXCEPT !.connections = RemoveAt(config.connections, name)]]

\* ConfigManager.update_connection of db_connector_tool: remove_connection,
\* then add_connection; each of the two saves the file when it succeeds
Tool_update(config, name, cfg) ==
    IF name = "" THEN [err |-> "ValueError", config |-> config]
    ELSE IF cfg = << >> THEN [err |-> "ValueError", config |-> config]
    ELSE LET r == Tool_remove(config, name) IN
         IF r.err # "none" THEN [err |-> "ConfigError", config |-> config]
         ELSE LET a == Tool_add(r.config, name, cfg) IN
              IF a.err # "none" THEN [err |-> "ConfigError", config |-> r.config]
              ELSE [err |-> "none", config |-> a.config]

ToolConfigs == {CfgMysql, CfgSqliteMem}

----------------------------------------------------------------------------
(* DatabaseManager._lock, a threading.RLock: the thread that holds it and  *)
(* the number of times that thread has acquired it.                        *)
Threads == {"t1", "t2"}

Unlocked == [owner |-> "none", count |-> 0]

\* a lock that every thread may take at any time
lock_available_Always(l, t) == TRUE

\* a lock whose owner has to wait for it like every other thread
lock_available_NonReentrant(l, t) == l.owner = "none"

\* RLock.acquire returns at once for the owner and blocks every other thread
\* until the lock is free
lock_available(l, t) == l.owner = "none" \/ l.owner = t

lock_acquire(l, t) == [owner |-> t, count |-> l.count + 1]

\* RLock.release: the lock is free again when the outermost "with" block ends
lock_release(l) == IF l.count = 1 THEN Unlocked ELSE [l EXCEPT !.count = @ - 1]

\* a thread that is in no call of the manager
NotCalling == [op |-> "none", name |-> "", cfg |-> << >>, step |-> "none",
               todo |-> {}, seen |-> << >>, err |-> "none"]

----------------------------------------------------------------------------
(* State machine of the manager *)
Overrides == {<< >>, ("host" :> PyStr(<<"i">>)), ("type" :> PyStr(<<"x">>))}

IdleThresholds == {0, 1}

State == [pool |-> connection_pool, stats |-> statistics, made |-> made]

WithinBounds(st) ==
    /\ st.made <= MaxDrivers
    /\ \A n \in DOMAIN st.pool : st.pool[n].use_count <= MaxUse

SetState(st) ==
    /\ WithinBounds(st)
    /\ connection_pool' = st.pool
    /\ statistics' = st.stats
    /\ made' = st.made

InitManager ==
    /\ connections = << >>
    /\ connection_pool = << >>
    /\ statistics = [total_connections_created |-> 0, total_connections_closed |-> 0,
                     connection_errors |-> 0]
    /\ made = 0
    /\ now = 0
    /\ legacy_connections = << >>
    /\ pending = NoUpdate
    /\ lock = Unlocked
    /\ pc = [t \in Threads |-> NotCalling]

Init == InitManager /\ crypto = NoCrypto /\ tool_config = default_config

\* The environment choices a call can observe in the current state: a choice
\* that the call never consults is fixed, so that it is not enumerated twice.
NoCleanup == [up |-> TRUE, denv |-> "ok"]

\* _cleanup_connection of adapter d consults the backend only when d believes
\* it is connected, and disposes only when the probe passes
DriverCleanupChoices(d) ==
    IF d.connected
    THEN {[up |-> TRUE, denv |-> x] : x \in DisconnectEnv} \cup {[up |-> FALSE, denv |-> "ok"]}
    ELSE {NoCleanup}

CleanupChoices(name) ==
    IF name \in DOMAIN connection_pool
    THEN DriverCleanupChoices(connection_pool[name].driver)
    ELSE {NoCleanup}

CleanupAllChoices ==
    {f \in [ConnNames -> [up : BOOLEAN, denv : DisconnectEnv]] :
        \A n \in ConnNames : f[n] \in CleanupChoices(n)}

GetEnv(p, c, k) ==
    [up1 |-> p.up1, cenv1 |-> p.cenv1, up2 |-> c.up, denv |-> c.denv, cenv2 |-> k]

NoProbe == [up1 |-> TRUE, cenv1 |-> "ok"]

\* the pooled adapter's probe: a connected adapter is probed, a disconnected
\* one reconnects first
ProbeChoices(d) ==
    IF d.connected THEN {[up1 |-> u, cenv1 |-> "ok"] : u \in BOOLEAN}
    ELSE {[up1 |-> u, cenv1 |-> "ok"] : u \in BOOLEAN}
         \cup {[up1 |-> TRUE, cenv1 |-> x] : x \in ConnectEnv \ {"ok"}}

\* the connect of a new adapter is reached only with a definition that validates
ConnectChoices(name, over) ==
    IF validate_basic_config(Merge(CM_get(connections, name).cfg, over)).err = "none"
    THEN ConnectEnv ELSE {"ok"}

GetChoices(name, over) ==
    IF ~HasName(connections, name) THEN {GetEnv(NoProbe, NoCleanup, "ok")}
    ELSE IF name \notin DOMAIN connection_pool
    THEN {GetEnv(NoProbe, NoCleanup, k) : k \in ConnectChoices(name, over)}
    ELSE IF over # << >>
    THEN {GetEnv(NoProbe, c, k) : c \in CleanupChoices(name), k \in ConnectChoices(name, over)}
    ELSE UNION {LET tc == test_connection(connection_pool[name].driver, p.cenv1, p.up1)
                IN IF tc.ret THEN {GetEnv(p, NoCleanup, "ok")}
                   ELSE {GetEnv(p, c, k) : c \in DriverCleanupChoices(tc.d), k \in ConnectEnv}
                : p \in ProbeChoices(connection_pool[name].driver)}

AddConnectionOf(Cfgs) ==
    \E name \in ConnNames, cfg \in Cfgs :
    \E r \in {add_connection(connections, name, cfg)} :
        /\ connections' = r.conns
        /\ UNCHANGED <<connection_pool, statistics, made, now, legacy_connections, pending, lock, pc, crypto, tool_config>>

AddConnection == AddConnectionOf(ManagerConfigs)

RemoveConnection ==
    \E name \in ConnNames : \E e \in CleanupChoices(name) :
    \E r \in {remove_connection(State, connections, name, e.up, e.denv)} :
        /\ SetState(r.st)
        /\ connections' = r.conns
        /\ UNCHANGED <<now, legacy_connections, pending, lock, pc, crypto, tool_config>>

UpdateConnectionOf(Cfgs) ==
    \E name \in ConnNames, cfg \in Cfgs : \E e \in CleanupChoices(name) :
    \E r \in {update_connection(State, connections, name, cfg, e.up, e.denv)} :
        /\ SetState(r.st)
        /\ connections' = r.conns
        /\ UNCHANGED <<now, legacy_connections, pending, lock, pc, crypto, tool_config>>

UpdateConnection == UpdateConnectionOf(ManagerConfigs)

GetConnection ==
    \E name \in ConnNames, over \in Overrides : \E env \in GetChoices(name, over) :
    \E g \in {get_connection(State, connections, name, over, env, now)} :
        /\ SetState(g.st)
        /\ UNCHANGED <<connections, now, legacy_connections, pending, lock, pc, crypto, tool_config>>

TestConnection ==
    \E name \in ConnNames : \E env \in GetChoices(name, << >>) :
    \E g \in {get_connection(State, connections, name, << >>, env, now)} :
    \E up3 \in IF g.err = "none" THEN BOOLEAN ELSE {TRUE} :
    \E r \in {db_test_connection(g, name, up3)} :
        /\ SetState(r.st)
        /\ UNCHANGED <<connections, now, legacy_connections, pending, lock, pc, crypto, tool_config>>

Execute ==
    \E name \in ConnNames : \E env \in GetChoices(name, << >>) :
    \E g \in {get_connection(State, connections, name, << >>, env, now)} :
    \E x \in IF g.err = "none" THEN ExecuteEnv ELSE {[qenv |-> "ok", denv2 |-> "ok"]} :
    \E r \in {execute(g, name, x)} :
        /\ SetState(r.st)
        /\ UNCHANGED <<connections, now, legacy_connections, pending, lock, pc, crypto, tool_config>>

CloseConnection ==
    \E name \in ConnNames : \E e \in CleanupChoices(name) :
        /\ SetState(cleanup_connection(State, name, e.up, e.denv))
        /\ UNCHANGED <<connections, now, legacy_connections, pending, lock, pc, crypto, tool_config>>

CloseAllConnections ==
    \E f \in CleanupAllChoices :
        /\ SetState(close_all_connections(State, f))
        /\ UNCHANGED <<connections, now, legacy_connections, pending, lock, pc, crypto, tool_config>>

CleanupIdleConnections ==
    \E max_idle_time \in IdleThresholds : \E f \in CleanupAllChoices :
    \E r \in {cleanup_idle_connections(State, now, max_idle_time, f)} :
        /\ SetState(r.st)
        /\ UNCHANGED <<connections, now, legacy_connections, pending, lock, pc, crypto, tool_config>>

\* time.time() moves on
Tick ==
    /\ now < MaxTime
    /\ now' = now + 1
    /\ UNCHANGED <<connections, connection_pool, statistics, made, legacy_connections, pending, lock, pc, crypto, tool_config>>

Next ==
    \/ AddConnection
    \/ RemoveConnection
    \/ UpdateConnection
    \/ GetConnection
    \/ TestConnection
    \/ Execute
    \/ CloseConnection
    \/ CloseAllConnections
    \/ CleanupIdleConnections
    \/ Tick

Spec == Init /\ [][Next]_vars

----------------------------------------------------------------------------
(* The registry alone, driven by the manager with every kind of definition; *)
(* no adapter is requested, so the pool stays empty.                        *)
RegAddConnection == AddConnectionOf(Configs)

RegUpdateConnection == UpdateConnectionOf(Configs)

NextRegistry ==
    \/ RegAddConnection
    \/ RegUpdateConnection
    \/ RemoveConnection

SpecRegistry == Init /\ [][NextRegistry]_vars

----------------------------------------------------------------------------
(* The legacy manager of core/database.py *)
CreateConnection ==
    \E name \in ConnNames, cfg \in Configs :
    \E r \in {create_connection(legacy_connections, name, cfg)} :
        /\ legacy_connections' = r.conns
        /\ UNCHANGED <<connections, connection_pool, statistics, made, now, pending, lock, pc, crypto, tool_config>>

LegacyRemoveConnection ==
    \E name \in ConnNames :
    \E r \in {legacy_remove_connection(legacy_connections, name)} :
        /\ legacy_connections' = r.conns
        /\ UNCHANGED <<connections, connection_pool, statistics, made, now, pending, lock, pc, crypto, tool_config>>

NextLegacy ==
    \/ CreateConnection
    \/ LegacyRemoveConnection

SpecLegacy == Init /\ [][NextLegacy]_vars

----------------------------------------------------------------------------
(* ConfigManager.update_connection step by step: the registry file is      *)
(* saved by remove_connection and again by add_connection, and the process *)
(* can stop between the two.  pending.phase is "removed" between the two   *)
(* saves; "stopped" and "failed" record how the last call ended until the  *)
(* next call begins.                                                       *)
UpdateConfigs == {CfgMysql, CfgSqliteMem, CfgOracle, CfgMysqlFull}

CfgAdd ==
    /\ pending.phase # "removed"
    /\ \E name \in ConnNames, cfg \in UpdateConfigs :
       \E r \in {CM_add(connections, name, cfg)} :
          /\ connections' = r.conns
          /\ pending' = NoUpdate
    /\ UNCHANGED <<connection_pool, statistics, made, now, legacy_connections, lock, pc, crypto, tool_config>>

CfgUpdateBegin ==
    /\ pending.phase # "removed"
    /\ \E name \in ConnNames, cfg \in UpdateConfigs :
       \E r \in {update_first_step(connections, name, cfg)} :
          /\ connections' = r.conns
          /\ pending' = IF r.err = "none"
                        THEN [phase |-> "removed", name |-> name, cfg |-> cfg]
                        ELSE NoUpdate
    /\ UNCHANGED <<connection_pool, statistics, made, now, legacy_connections, lock, pc, crypto, tool_config>>

CfgUpdateFinish ==
    /\ pending.phase = "removed"
    /\ \E saved \in BOOLEAN :
       \E r \in {update_second_step(connections, pending.name, pending.cfg, saved)} :
          /\ connections' = r.conns
          /\ pending' = IF r.err = "none" THEN NoUpdate ELSE [pending EXCEPT !.phase = "failed"]
    /\ UNCHANGED <<connection_pool, statistics, made, now, legacy_connections, lock, pc, crypto, tool_config>>

\* the process stops between the two saves; the file stays as saved
ProcessStops ==
    /\ pending.phase = "removed"
    /\ pending' = [pending EXCEPT !.phase = "stopped"]
    /\ UNCHANGED <<connections, connection_pool, statistics, made, now, legacy_connections, lock, pc, crypto, tool_config>>

NextUpdate ==
    \/ CfgAdd
    \/ CfgUpdateBegin
    \/ CfgUpdateFinish
    \/ ProcessStops

SpecUpdate == Init /\ [][NextUpdate]_vars

----------------------------------------------------------------------------
(* The manager called by several threads.  Every call below begins with    *)
(* "with self._lock:"; a thread is inside the call from the moment it has  *)
(* the lock until it releases it.  pc[t].seen is the pool table and the    *)
(* registry as thread t left them at its last step.                        *)
LockedOps == {"add_connection", "remove_connection", "update_connection",
              "get_connection", "close_connection", "close_all_connections",
              "cleanup_idle_connections"}

Tables == [pool |-> connection_pool, conns |-> connections]

\* the arguments of a call of op
CallArgs(op) ==
    IF op \in {"add_connection", "update_connection"}
    THEN {[name |-> n, cfg |-> c] : n \in ConnNames, c \in ManagerConfigs}
    ELSE IF op \in {"close_all_connections", "cleanup_idle_connections"}
    THEN {[name |-> "", cfg |-> << >>]}
    ELSE {[name |-> n, cfg |-> << >>] : n \in ConnNames}

Inside(t) == pc[t].op \in LockedOps

\* the end of the outermost "with self._lock:" block of thread t
Leave(t) ==
    /\ lock' = lock_release(lock)
    /\ pc' = [pc EXCEPT ![t] = NotCalling]

\* thread t enters a call: it waits for the lock and takes it
ThreadCall ==
    \E t \in Threads, op \in LockedOps : \E a \in CallArgs(op) :
        /\ pc[t].op = "none"
        /\ lock_available(lock, t)
        /\ lock' = lock_acquire(lock, t)
        /\ pc' = [pc EXCEPT ![t] =
                    [op |-> op, name |-> a.name, cfg |-> a.cfg, step |-> "entered",
                     todo |-> IF op = "close_all_connections"
                              THEN DOMAIN connection_pool ELSE {},
                     seen |-> Tables, err |-> "none"]]
        /\ UNCHANGED <<connections, connection_pool, statistics, made, now,
                       legacy_connections, pending, crypto, tool_config>>

ThreadAdd ==
    \E t \in Threads :
        /\ pc[t].op = "add_connection"
        /\ \E r \in {add_connection(connections, pc[t].name, pc[t].cfg)} :
              connections' = r.conns
        /\ Leave(t)
        /\ UNCHANGED <<connection_pool, statistics, made, now, legacy_connections, pending, crypto, tool_config>>

\* remove_connection up to and including _cleanup_connection
ThreadRemoveEvict ==
    \E t \in Threads :
        /\ pc[t].op = "remove_connection"
        /\ pc[t].step = "entered"
        /\ IF validate_connection_exists(connections, pc[t].name) # "none"
           THEN /\ Leave(t)
                /\ UNCHANGED <<connection_pool, statistics, made, crypto, tool_config>>
           ELSE \E e \in CleanupChoices(pc[t].name) :
                \E st \in {cleanup_connection(State, pc[t].name, e.up, e.denv)} :
                   /\ SetState(st)
                   /\ pc' = [pc EXCEPT ![t].step = "evicted",
                                       ![t].seen = [pool |-> st.pool, conns |-> connections]]
                   /\ UNCHANGED lock
        /\ UNCHANGED <<connections, now, legacy_connections, pending, crypto, tool_config>>

\* remove_connection from config_manager.remove_connection on
ThreadRemoveDelete ==
    \E t \in Threads :
        /\ pc[t].op = "remove_connection"
        /\ pc[t].step = "evicted"
        /\ \E r \in {CM_remove(connections, pc[t].name)} : connections' = r.conns
        /\ Leave(t)
        /\ UNCHANGED <<connection_pool, statistics, made, now, legacy_connections, pending, crypto, tool_config>>

ThreadUpdate ==
    \E t \in Threads :
        /\ pc[t].op = "update_connection"
        /\ \E e \in CleanupChoices(pc[t].name) :
           \E r \in {update_connection(State, connections, pc[t].name, pc[t].cfg,
                                       e.up, e.denv)} :
              /\ SetState(r.st)
              /\ connections' = r.conns
        /\ Leave(t)
        /\ UNCHANGED <<now, legacy_connections, pending, crypto, tool_config>>

ThreadGet ==
    \E t \in Threads :
        /\ pc[t].op = "get_connection"
        /\ \E over \in Overrides : \E env \in GetChoices(pc[t].name, over) :
           \E g \in {get_connection(State, connections, pc[t].name, over, env, now)} :
              SetState(g.st)
        /\ Leave(t)
        /\ UNCHANGED <<connections, now, legacy_connections, pending, crypto, tool_config>>

ThreadClose ==
    \E t \in Threads :
        /\ pc[t].op = "close_connection"
        /\ \E e \in CleanupChoices(pc[t].name) :
              SetState(cleanup_connection(State, pc[t].name, e.up, e.denv))
        /\ Leave(t)
        /\ UNCHANGED <<connections, now, legacy_connections, pending, crypto, tool_config>>

\* close_all_connections calls close_connection for the next name of its
\* copy of the keys: the thread takes the lock a second time
ThreadCloseAllEnter ==
    \E t \in Threads :
        /\ pc[t].op = "close_all_connections"
        /\ pc[t].step = "entered"
        /\ pc[t].todo # {}
        /\ lock_available(lock, t)
        /\ lock' = lock_acquire(lock, t)
        /\ pc' = [pc EXCEPT ![t].step = "nested",
                            ![t].name = CHOOSE n \in pc[t].todo : TRUE]
        /\ UNCHANGED <<connections, connection_pool, statistics, made, now,
                       legacy_connections, pending, crypto, tool_config>>

\* the nested close_connection runs and gives its hold of the lock back
ThreadCloseAllClose ==
    \E t \in Threads :
        /\ pc[t].op = "close_all_connections"
        /\ pc[t].step = "nested"
        /\ \E e \in CleanupChoices(pc[t].name) :
           \E st \in {cleanup_connection(State, pc[t].name, e.up, e.denv)} :
              /\ SetState(st)
              /\ pc' = [pc EXCEPT ![t].step = "entered", ![t].name = "",
                                  ![t].todo = @ \ {pc[t].name},
                                  ![t].seen = [pool |-> st.pool, conns |-> connections]]
        /\ lock' = lock_release(lock)
        /\ UNCHANGED <<connections, now, legacy_connections, pending, crypto, tool_config>>

ThreadCloseAllDone ==
    \E t \in Threads :
        /\ pc[t].op = "close_all_connections"
        /\ pc[t].step = "entered"
        /\ pc[t].todo = {}
        /\ Leave(t)
        /\ UNCHANGED <<connections, connection_pool, statistics, made, now,
                       legacy_connections, pending, crypto, tool_config>>

ThreadCleanupIdle ==
    \E t \in Threads :
        /\ pc[t].op = "cleanup_idle_connections"
        /\ \E max_idle_time \in IdleThresholds : \E f \in CleanupAllChoices :
           \E r \in {cleanup_idle_connections(State, now, max_idle_time, f)} :
              SetState(r.st)
        /\ Leave(t)
        /\ UNCHANGED <<connections, now, legacy_connections, pending, crypto, tool_config>>

NextLock ==
    \/ ThreadCall
    \/ ThreadAdd
    \/ ThreadRemoveEvict
    \/ ThreadRemoveDelete
    \/ ThreadUpdate
    \/ ThreadGet
    \/ ThreadClose
    \/ ThreadCloseAllEnter
    \/ ThreadCloseAllClose
    \/ ThreadCloseAllDone
    \/ ThreadCleanupIdle
    \/ Tick

SpecLock == Init /\ [][NextLock]_vars

----------------------------------------------------------------------------
(* Progress of the calls.  A thread that has called a method of the        *)
(* manager waits at "with self._lock:" until RLock.acquire returns; from   *)
(* then on it runs the body and leaves the block.  While it waits, pc[t]   *)
(* has op "waiting" and step the name of the method it called.             *)

\* the calls of get_connection that have begun and have not returned
PendingGets ==
    Cardinality({t \in Threads :
                    \/ pc[t].op = "get_connection"
                    \/ pc[t].op = "waiting" /\ pc[t].step = "get_connection"})

\* a call of get_connection constructs at most one adapter and counts at
\* most one use; no further call is begun once the counters could pass their
\* bounds
Headroom(op) ==
    op = "get_connection" =>
        /\ made + PendingGets < MaxDrivers
        /\ \A n \in DOMAIN connection_pool :
               connection_pool[n].use_count + PendingGets < MaxUse

\* thread t calls a method and arrives at its "with self._lock:"
ThreadInvoke ==
    \E t \in Threads, op \in LockedOps : \E a \in CallArgs(op) :
        /\ pc[t].op = "none"
        /\ Headroom(op)
        /\ pc' = [pc EXCEPT ![t] = [NotCalling EXCEPT !.op = "waiting", !.step = op,
                                                      !.name = a.name, !.cfg = a.cfg]]
        /\ UNCHANGED <<connections, connection_pool, statistics, made, now,
                       legacy_connections, pending, lock, crypto, tool_config>>

\* RLock.acquire returns for thread t
ThreadAcquireOf(t) ==
    /\ pc[t].op = "waiting"
    /\ lock_available(lock, t)
    /\ lock' = lock_acquire(lock, t)
    /\ pc' = [pc EXCEPT ![t] =
                [op |-> pc[t].step, name |-> pc[t].name, cfg |-> pc[t].cfg,
                 step |-> "entered",
                 todo |-> IF pc[t].step = "close_all_connections"
                          THEN DOMAIN connection_pool ELSE {},
                 seen |-> Tables, err |-> "none"]]
    /\ UNCHANGED <<connections, connection_pool, statistics, made, now,
                   legacy_connections, pending, crypto, tool_config>>

ThreadAcquire == \E t \in Threads : ThreadAcquireOf(t)

\* the steps of the bodies of the calls
ThreadBody ==
    \/ ThreadAdd
    \/ ThreadRemoveEvict
    \/ ThreadRemoveDelete
    \/ ThreadUpdate
    \/ ThreadGet
    \/ ThreadClose
    \/ ThreadCloseAllEnter
    \/ ThreadCloseAllClose
    \/ ThreadCloseAllDone
    \/ ThreadCleanupIdle

\* a step of the body of the call thread t is in
ThreadBodyOf(t) == Inside(t) /\ ThreadBody /\ pc'[t] # pc[t]

\* ENABLED <<ThreadBodyOf(t)>>_vars written out.  The statements of a body
\* wait for nothing but the lock: the only one that can block is the
\* "with self._lock:" of the close_connection that close_all_connections
\* calls.
ThreadBodyEnabled(t) ==
    /\ Inside(t)
    /\ (pc[t].op = "close_all_connections" /\ pc[t].step = "entered"
            /\ pc[t].todo # {})
       => lock_available(lock, t)

\* weak fairness of ThreadBodyOf(t), by the definition of WF
WeakFairBodyOf(t) ==
    \/ []<>(~ThreadBodyEnabled(t))
    \/ []<><<ThreadBodyOf(t)>>_vars

NextProgress ==
    \/ ThreadInvoke
    \/ ThreadAcquire
    \/ ThreadAdd
    \/ ThreadRemoveEvict
    \/ ThreadRemoveDelete
    \/ ThreadUpdate
    \/ ThreadGet
    \/ ThreadClose
    \/ ThreadCloseAllEnter
    \/ ThreadCloseAllClose
    \/ ThreadCloseAllDone
    \/ ThreadCleanupIdle

\* Backend calls terminate, so a thread that is in a body goes on (weak
\* fairness); the scheduler is fair, so a thread that waits for a lock that
\* is released again and again gets it (strong fairness).
SpecProgress ==
    /\ Init
    /\ [][NextProgress]_vars
    /\ \A t \in Threads : WeakFairBodyOf(t) /\ SF_vars(ThreadAcquireOf(t))

----------------------------------------------------------------------------
(* execute_query / execute_command called by several threads against a     *)
(* backend that is up and never fails.  Only get_connection runs under the *)
(* lock; "with driver:" and the statement run outside it, on the adapter   *)
(* object that the pool hands to every caller of the name.                 *)

\* SQLAlchemyDriver.execute_query / execute_command: the error raised
driver_execute_query(d, qenv) ==
    IF ~d.connected \/ d.engine = "None" THEN "ConnectionError"
    ELSE IF qenv # "ok" THEN "QueryError"
    ELSE "none"

\* driver = self.get_connection(connection_name)
ThreadExecGet ==
    \E t \in Threads, name \in ConnNames :
    \E g \in {get_connection(State, connections, name, << >>,
                             GetEnv(NoProbe, NoCleanup, "ok"), now)} :
        /\ pc[t].step \in {"none", "done"}
        /\ lock_available(lock, t)
        /\ SetState(g.st)
        /\ pc' = [pc EXCEPT ![t] =
                    [NotCalling EXCEPT !.op = "execute_query", !.name = name,
                                       !.step = IF g.err = "none" THEN "got" ELSE "done",
                                       !.err = g.err]]
        /\ UNCHANGED <<connections, now, legacy_connections, pending, lock, crypto, tool_config>>

\* with driver: __enter__ calls connect()
ThreadExecEnter ==
    \E t \in {u \in Threads : pc[u].step = "got"} :
    \E c \in {connect(connection_pool[pc[t].name].driver, "ok")} :
        /\ connection_pool' = [connection_pool EXCEPT ![pc[t].name].driver = c.d]
        /\ pc' = [pc EXCEPT ![t].step = IF c.err = "none" THEN "entered" ELSE "done",
                            ![t].err = c.err]
        /\ UNCHANGED <<connections, statistics, made, now, legacy_connections, pending, lock, crypto, tool_config>>

\* driver.execute_query(query, params)
ThreadExecQuery ==
    \E t \in Threads :
        /\ pc[t].step = "entered"
        /\ pc' = [pc EXCEPT ![t].step = "queried",
                            ![t].err = driver_execute_query(
                                           connection_pool[pc[t].name].driver, "ok")]
        /\ UNCHANGED <<connections, connection_pool, statistics, made, now,
                       legacy_connections, pending, lock, crypto, tool_config>>

\* the end of "with driver:": __exit__ calls disconnect(), and the call
\* returns or raises what the statement raised
ThreadExecExit ==
    \E t \in {u \in Threads : pc[u].step = "queried"} :
    \E dc \in {disconnect(connection_pool[pc[t].name].driver, "ok")} :
        /\ connection_pool' = [connection_pool EXCEPT ![pc[t].name].driver = dc.d]
        /\ pc' = [pc EXCEPT ![t].step = "done",
                            ![t].err = IF dc.err # "none" THEN dc.err ELSE @]
        /\ UNCHANGED <<connections, statistics, made, now, legacy_connections, pending, lock, crypto, tool_config>>

NextExecute ==
    \/ AddConnection
    \/ ThreadExecGet
    \/ ThreadExecEnter
    \/ ThreadExecQuery
    \/ ThreadExecExit

SpecExecute == Init /\ [][NextExecute]_vars

----------------------------------------------------------------------------
(* CryptoManager.encrypt and decrypt of one engine applied to a string.    *)
InitCrypto ==
    /\ InitManager
    /\ tool_config = default_config
    /\ \E s \in UNION {[1..n -> CryptoChars] : n \in 0..MaxPlainLen} :
          crypto = [NoCrypto EXCEPT !.step = "input", !.plain = s]

\* encrypted = crypto.encrypt(test_data)
CryptoEncrypt ==
    /\ crypto.step = "input"
    /\ \E e \in {crypto_encrypt(ConfigKey, crypto.plain)} :
          crypto' = [crypto EXCEPT !.step = "encrypted", !.token = e.token, !.err = e.err]
    /\ UNCHANGED <<connections, connection_pool, statistics, made, now,
                   legacy_connections, pending, lock, pc, tool_config>>

\* decrypted = crypto.decrypt(encrypted)
CryptoDecrypt ==
    /\ crypto.step = "encrypted"
    /\ crypto.err = "none"
    /\ \E r \in {crypto_decrypt(ConfigKey, crypto.token)} :
          crypto' = [crypto EXCEPT !.step = "decrypted", !.out = r.data, !.err = r.err]
    /\ UNCHANGED <<connections, connection_pool, statistics, made, now,
                   legacy_connections, pending, lock, pc, tool_config>>

\* crypto.decrypt of a string that the engine did not produce: the token of
\* the same plaintext under another engine's key, or a string that is no
\* token at all (no key produced it)
CryptoDecryptForeign ==
    /\ crypto.step = "encrypted"
    /\ crypto.err = "none"
    /\ \E tok \in {Encrypt(create_fernet_instance("pw2", <<1>>), crypto.token.data),
                   Encrypt(create_fernet_instance("pw1", <<2, 3>>), crypto.token.data),
                   Encrypt(EmptyToken.key, crypto.token.data)} :
       \E r \in {crypto_decrypt(ConfigKey, tok)} :
          crypto' = [crypto EXCEPT !.step = "rejected", !.token = tok, !.out = r.data,
                                   !.err = r.err]
    /\ UNCHANGED <<connections, connection_pool, statistics, made, now,
                   legacy_connections, pending, lock, pc, tool_config>>

\* crypto1 encrypts, its get_key_info is saved, crypto2 is made from the saved
\* password and salt by from_saved_key, and crypto2 decrypts
CryptoPersist ==
    /\ crypto.step = "input"
    /\ \E password \in {"pw1", "pw2"}, salt \in {<<1>>, <<2, 3>>, <<255, 0, 7>>} :
       \E e \in {crypto_encrypt(create_fernet_instance(password, salt), crypto.plain)} :
       \E k \in {get_key_info(password, salt)} :
       \E f \in {from_saved_key(k.password, k.salt)} :
       \E r \in {IF e.err # "none" THEN [err |-> e.err, data |-> << >>]
                 ELSE IF f.err # "none" THEN [err |-> f.err, data |-> << >>]
                 ELSE crypto_decrypt(f.key, e.token)} :
          crypto' = [crypto EXCEPT !.step = "reloaded", !.token = e.token,
                                   !.out = r.data, !.err = r.err]
    /\ UNCHANGED <<connections, connection_pool, statistics, made, now,
                   legacy_connections, pending, lock, pc, tool_config>>

NextCrypto ==
    \/ CryptoEncrypt
    \/ CryptoDecrypt
    \/ CryptoDecryptForeign
    \/ CryptoPersist

SpecCrypto == InitCrypto /\ [][NextCrypto]_vars

----------------------------------------------------------------------------
(* get_connection(name) without overrides called by several threads, once  *)
(* each, against a backend that is up and never fails.  The call looks the *)
(* name up in the pool and, when it is absent, constructs, connects and    *)
(* pools an adapter later in the same "with self._lock:" block.            *)
(* pc[t].seen is the adapter the call returned.                            *)

\* the call up to the end of "if name in self.connection_pool:"; a call that
\* raises or finds an entry finishes here
FirstUseLook ==
    \E t \in Threads, name \in ConnNames :
        /\ pc[t].op = "none"
        /\ lock_available(lock, t)
        /\ IF name \in DOMAIN connection_pool
              \/ validate_connection_exists(connections, name) # "none"
           THEN \E g \in {get_connection(State, connections, name, << >>,
                                         GetEnv(NoProbe, NoCleanup, "ok"), now)} :
                   /\ SetState(g.st)
                   /\ pc' = [pc EXCEPT ![t] = [NotCalling EXCEPT !.op = "returned",
                                                  !.name = name, !.seen = g.driver,
                                                  !.err = g.err]]
                   /\ UNCHANGED lock
           ELSE /\ lock' = lock_acquire(lock, t)
                /\ pc' = [pc EXCEPT ![t] = [NotCalling EXCEPT !.op = "get_connection",
                                               !.name = name, !.step = "absent"]]
                /\ UNCHANGED <<connection_pool, statistics, made, tool_config>>
        /\ UNCHANGED <<connections, now, legacy_connections, pending, crypto, tool_config>>

\* the call from "connection_config = self.show_connection(name)" on
FirstUseCreate ==
    \E t \in {u \in Threads : pc[u].op = "get_connection" /\ pc[u].step = "absent"} :
    \E base \in {CM_get(connections, pc[t].name)} :
    \E g \in {IF base.err # "none" THEN GetRes(Raised(State, base.err), 0, 0, "none")
              ELSE OpenNew(State, pc[t].name, base.cfg, FALSE, "ok", now, "none")} :
        /\ SetState(g.st)
        /\ lock' = lock_release(lock)
        /\ pc' = [pc EXCEPT ![t] = [NotCalling EXCEPT !.op = "returned",
                                       !.name = pc[t].name, !.seen = g.driver,
                                       !.err = g.err]]
        /\ UNCHANGED <<connections, now, legacy_connections, pending, crypto, tool_config>>

NextFirstUse ==
    \/ AddConnection
    \/ FirstUseLook
    \/ FirstUseCreate

SpecFirstUse == Init /\ [][NextFirstUse]_vars

----------------------------------------------------------------------------
(* The registry of db_connector_tool under any sequence of add_connection,  *)
(* remove_connection and update_connection.                                 *)
ToolAdd ==
    \E name \in ConnNames, cfg \in ToolConfigs :
        /\ tool_config' = Tool_add(tool_config, name, cfg).config
        /\ UNCHANGED <<connections, connection_pool, statistics, made, now,
                       legacy_connections, pending, lock, pc, crypto>>

ToolRemove ==
    \E name \in ConnNames :
        /\ tool_config' = Tool_remove(tool_config, name).config
        /\ UNCHANGED <<connections, connection_pool, statistics, made, now,
                       legacy_connections, pending, lock, pc, crypto>>

ToolUpdate ==
    \E name \in ConnNames, cfg \in ToolConfigs :
        /\ tool_config' = Tool_update(tool_config, name, cfg).config
        /\ UNCHANGED <<connections, connection_pool, statistics, made, now,
                       legacy_connections, pending, lock, pc, crypto>>

NextTool == ToolAdd \/ ToolRemove \/ ToolUpdate

SpecTool == Init /\ [][NextTool]_vars

----------------------------------------------------------------------------
(* Properties.  A property about one call is stated over every reachable   *)
(* state: for every input and every behaviour of the backend the call can  *)
(* meet there, the call's outcome is as stated.                            *)

C2_SqliteNeedsOnlyDatabase ==
    \A n \in ConnNames \ NamesOf(connections), cfg \in {CfgSqliteMem, CfgSqliteNoDb} :
        /\ add_connection(connections, n, cfg).err = "none"
        /\ n \in NamesOf(add_connection(connections, n, cfg).conns)
        /\ CM_get(add_connection(connections, n, cfg).conns, n).cfg["database"]
              = PyStr(S_memory)

\* C3: DatabaseManager.add_connection of a non-sqlite definition that lacks
\* one of host, username, password, database fails with ConfigError and stores
\* nothing, and every stored non-sqlite definition has the four fields.
C3_RequiredFieldsEnforced ==
    /\ \A n \in ConnNames \ NamesOf(connections), cfg \in Configs :
          (/\ DbType(cfg) \in SUPPORTED_DATABASE_TYPES \ {S_sqlite}
           /\ {"host", "username", "password", "database"} \ DOMAIN cfg # {})
          => /\ add_connection(connections, n, cfg).err = "ConfigError"
             /\ add_connection(connections, n, cfg).conns = connections
    /\ \A n \in NamesOf(connections) :
          DbType(CM_get(connections, n).cfg) # S_sqlite
          => {"host", "username", "password", "database"}
                \subseteq DOMAIN CM_get(connections, n).cfg

\* C4: adding a definition whose type is absent or unsupported fails with
\* ConfigError and leaves the registry unchanged, in DatabaseManager.add_connection
\* and in create_connection of core/database.py, and no stored definition has
\* an unsupported type.
C4_UnsupportedTypeRejected ==
    /\ \A n \in ConnNames, cfg \in Configs :
          DbType(cfg) \notin SUPPORTED_DATABASE_TYPES
          => /\ n \notin NamesOf(connections)
                => /\ add_connection(connections, n, cfg).err = "ConfigError"
                   /\ add_connection(connections, n, cfg).conns = connections
             /\ create_connection(legacy_connections, n, cfg).err = "ConfigError"
             /\ create_connection(legacy_connections, n, cfg).conns = legacy_connections
    /\ \A n \in NamesOf(connections) :
          DbType(CM_get(connections, n).cfg) \in SUPPORTED_DATABASE_TYPES
    /\ \A i \in 1..Len(legacy_connections) :
          DbType(legacy_connections[i].fields) \in SUPPORTED_DATABASE_TYPES

\* C5: ConfigManager.add_connection(n, d) under a free name followed by
\* ConfigManager.get_connection(n) returns d: the same field names, and for
\* each field a value equal to the original and of its type (str, int, float,
\* bool).
C5_RegistryRoundTrip ==
    /\ \A n \in ConnNames \ NamesOf(connections), d \in Configs \ {<< >>} :
          /\ CM_add(connections, n, d).err = "none"
          /\ CM_get(CM_add(connections, n, d).conns, n) = [err |-> "none", cfg |-> d]
    /\ \A d \in Configs : \A k \in DOMAIN d :
          DeserializeValue(Decrypt(ConfigKey, Encrypt(ConfigKey, SerializeValue(d[k])))) = d[k]

\* a stored definition with a string that needs escaping, an integer, a float
\* and a boolean is read back as it was given
C5_Witness ==
    \E n \in NamesOf(connections) :
        /\ CM_get(connections, n) = [err |-> "none", cfg |-> CfgMysqlFull]
        /\ {CfgMysqlFull[k].t : k \in DOMAIN CfgMysqlFull} = {"str", "int", "float", "bool"}

\* C6: whenever the pool holds an entry for n whose adapter passes the probe,
\* get_connection(n) without overrides returns that adapter, constructs none,
\* adds 1 to the entry's use_count and sets its last_used to the current time.
C6_PoolReuse ==
    \A n \in DOMAIN connection_pool : \A p \in ProbeChoices(connection_pool[n].driver) :
        test_connection(connection_pool[n].driver, p.cenv1, p.up1).ret
        => /\ get_connection(State, connections, n, << >>,
                             GetEnv(p, NoCleanup, "ok"), now).err = "none"
           /\ LET g == get_connection(State, connections, n, << >>,
                                      GetEnv(p, NoCleanup, "ok"), now)
              IN /\ g.driver = connection_pool[n].driver.id
                 /\ g.constructed = 0
                 /\ g.st.made = made
                 /\ g.st.pool[n].use_count = connection_pool[n].use_count + 1
                 /\ g.st.pool[n].last_used = now

\* C7: get_connection(n, overrides) with non-empty overrides that returns,
\* returns an adapter constructed by the call and distinct from every pooled
\* adapter before and after it, and no pooled adapter was built from overrides.
C7_OverridesNeverCached ==
    /\ \A n \in ConnNames, over \in Overrides \ {<< >>} : \A env \in GetChoices(n, over) :
          LET g == get_connection(State, connections, n, over, env, now) IN
          g.err = "none"
          => /\ g.constructed = 1
             /\ g.driver = made + 1
             /\ g.driver \notin PooledIds(connection_pool)
             /\ g.driver \notin PooledIds(g.st.pool)
             /\ g.st.stats.total_connections_created = statistics.total_connections_created
    /\ \A n \in DOMAIN connection_pool : ~connection_pool[n].driver.from_overrides

\* a call with overrides returns an adapter while the pool holds others
C7_Witness ==
    \E n \in NamesOf(connections), m \in DOMAIN connection_pool :
    \E over \in Overrides \ {<< >>} : \E env \in GetChoices(n, over) :
        /\ m # n
        /\ get_connection(State, connections, n, over, env, now).err = "none"
        /\ m \in DOMAIN get_connection(State, connections, n, over, env, now).st.pool

\* C8: cleanup_idle_connections(0) leaves the pool empty and returns the pool
\* size before the call.
C8_ThresholdZeroEvictsAll ==
    \A f \in CleanupAllChoices :
        /\ cleanup_idle_connections(State, now, 0, f).st.pool = << >>
        /\ cleanup_idle_connections(State, now, 0, f).count
              = Cardinality(DOMAIN connection_pool)

\* C9: get_connection(n) for a name without a stored definition raises
\* ConfigError, constructs no adapter and leaves the pool and the statistics
\* as they were, with or without overrides and whatever the backend does.
C9_MissingNameRaises ==
    \A n \in ConnNames \ NamesOf(connections), over \in Overrides :
    \A env \in GetChoices(n, over) \cup
               {GetEnv(NoProbe, c, "ok") : c \in [up : BOOLEAN, denv : DisconnectEnv]} :
        /\ get_connection(State, connections, n, over, env, now).err = "ConfigError"
        /\ get_connection(State, connections, n, over, env, now).constructed = 0
        /\ get_connection(State, connections, n, over, env, now).st = State

\* a name without a definition is asked for while another name is pooled
C9_Witness ==
    /\ connection_pool # << >>
    /\ \E n \in ConnNames \ NamesOf(connections) :
          /\ NamesOf(connections) # {}
          /\ get_connection(State, connections, n, << >>,
                            GetEnv(NoProbe, NoCleanup, "ok"), now).err = "ConfigError"

\* C10: remove_connection(n) of an existing name leaves n neither listed nor
\* pooled and every other name's definition and pool entry as they were;
\* of an absent name it raises ConfigError and changes nothing.
C10_RemoveEvictsAndDeletes ==
    /\ \A n \in NamesOf(connections) : \A e \in CleanupChoices(n) :
          LET r == remove_connection(State, connections, n, e.up, e.denv) IN
             /\ r.err = "none"
             /\ n \notin NamesOf(r.conns)
             /\ n \notin DOMAIN r.st.pool
             /\ \A m \in ConnNames \ {n} :
                   /\ HasName(r.conns, m) = HasName(connections, m)
                   /\ HasName(connections, m) => Record(r.conns, m) = Record(connections, m)
                   /\ (m \in DOMAIN r.st.pool) = (m \in DOMAIN connection_pool)
                   /\ m \in DOMAIN connection_pool => r.st.pool[m] = connection_pool[m]
    /\ \A n \in ConnNames \ NamesOf(connections) : \A e \in CleanupChoices(n) :
          LET r == remove_connection(State, connections, n, e.up, e.denv) IN
             /\ r.err = "ConfigError"
             /\ r.st = State
             /\ r.conns = connections

\* C11: for an existing name n and a definition d2 that validates,
\* update_connection(n, d2) leaves the registry (and the pool) as
\* remove_connection(n) followed by add_connection(n, d2) does; the registry
\* then returns for n exactly d2 as validated, and every other name's
\* definition is what it was.
C11_UpdateIsRemoveThenAdd ==
    \A n \in NamesOf(connections), d2 \in Configs :
        validate_basic_config(d2).err = "none"
        => \A e \in CleanupChoices(n) :
              LET u == update_connection(State, connections, n, d2, e.up, e.denv)
                  r == remove_connection(State, connections, n, e.up, e.denv)
                  a == add_connection(r.conns, n, d2)
              IN /\ u.err = "none" /\ r.err = "none" /\ a.err = "none"
                 /\ u.conns = a.conns
                 /\ u.st = r.st
                 /\ CM_get(u.conns, n) = [err |-> "none", cfg |-> validate_basic_config(d2).cfg]
                 /\ NamesOf(u.conns) = NamesOf(connections)
                 /\ \A m \in NamesOf(connections) \ {n} :
                       CM_get(u.conns, m) = CM_get(connections, m)

\* a name stored with eight fields beside another name is updated to a
\* definition with fewer fields
C11_Witness ==
    \E n \in NamesOf(connections), m \in NamesOf(connections) :
        /\ m # n
        /\ CM_get(connections, n).cfg = CfgMysqlFull
        /\ update_connection(State, connections, n, CfgOracle, TRUE, "ok").err = "none"
        /\ DOMAIN CM_get(update_connection(State, connections, n, CfgOracle, TRUE, "ok").conns,
                         n).cfg
              = {"type", "host", "username", "password", "service_name"}

\* C12: ConfigManager.update_connection saves the removal of the old
\* definition before it saves the new one: between the two saves the name is
\* absent from the registry, and when the process stops there or the add step
\* fails the name stays absent (neither the old nor the new definition is
\* stored); a completed update is the update as a whole.
C12_UpdateNotAtomic ==
    /\ pending.phase \in {"removed", "stopped", "failed"}
       => ~HasName(connections, pending.name)
    /\ \A n \in NamesOf(connections), cfg \in UpdateConfigs :
          LET f == update_first_step(connections, n, cfg) IN
             /\ f.err = "none"
             /\ ~HasName(f.conns, n)
             /\ update_second_step(f.conns, n, cfg, TRUE) = CM_update(connections, n, cfg)
             /\ ~HasName(update_second_step(f.conns, n, cfg, FALSE).conns, n)

\* the process has stopped between the two saves and the name is gone while
\* another name is still stored
C12_Witness ==
    /\ pending.phase = "stopped"
    /\ ~HasName(connections, pending.name)
    /\ connections # << >>

\* C13: connect() of an adapter, pooled or newly constructed from a stored
\* definition, either returns with the adapter connected and an engine that
\* passed the probe, or raises ConnectionError with the adapter unconnected
\* and its engine None; an adapter is never connected without an engine.
C13_ConnectAllOrNothing ==
    \A d \in {connection_pool[n].driver : n \in DOMAIN connection_pool}
             \cup {NewDriver(made + 1, CM_get(connections, n).cfg, FALSE) :
                      n \in NamesOf(connections)} :
    \A env \in ConnectEnv :
        /\ \/ /\ connect(d, env).err = "none"
              /\ connect(d, env).d.connected
              /\ connect(d, env).d.engine = "Engine"
           \/ /\ connect(d, env).err = "ConnectionError"
              /\ ~connect(d, env).d.connected
              /\ connect(d, env).d.engine = "None"
        /\ connect(d, env).d.connected => connect(d, env).d.engine = "Engine"

\* C14: from every adapter state a caller can hold (a pooled adapter, also
\* after is_connected was read on it), disconnect() that returns leaves the
\* adapter unconnected with no engine and no session factory, and on an
\* unconnected adapter it does not raise and changes nothing.
C14_DisconnectReleasesAll ==
    \A n \in DOMAIN connection_pool, up \in BOOLEAN, env \in DisconnectEnv :
        LET d == is_connected(connection_pool[n].driver, up).d IN
           /\ disconnect(d, env).err = "none"
              => /\ ~disconnect(d, env).d.connected
                 /\ disconnect(d, env).d.engine = "None"
                 /\ disconnect(d, env).d.session_factory = "None"
           /\ ~d.connected
              => /\ disconnect(d, env).err = "none"
                 /\ disconnect(d, env).d = d

\* C15: SQLAlchemyDriver.test_connection connects an unconnected adapter
\* first, probes, and returns false instead of raising when the connect or
\* the probe fails; DatabaseManager.test_connection(n) returns false instead
\* of raising for an unknown name, a failed connect or a failed probe.
C15_TestConnectionNeverRaises ==
    /\ \A d \in {connection_pool[n].driver : n \in DOMAIN connection_pool}
                \cup {NewDriver(made + 1, CM_get(connections, n).cfg, FALSE) :
                         n \in NamesOf(connections)} :
       \A cenv \in ConnectEnv, up \in BOOLEAN :
          /\ test_connection(d, cenv, up).err = "none"
          /\ test_connection(d, cenv, up).ret
                = (/\ d.connected \/ connect(d, cenv).err = "none"
                   /\ perform_connection_test(test_connection(d, cenv, up).d, up))
    /\ \A n \in ConnNames : \A env \in GetChoices(n, << >>) : \A up3 \in BOOLEAN :
          LET g == get_connection(State, connections, n, << >>, env, now) IN
             /\ db_test_connection(g, n, up3).err = "none"
             /\ g.err # "none" => ~db_test_connection(g, n, up3).ret
             /\ g.err = "none"
                => db_test_connection(g, n, up3).ret
                      = perform_connection_test(g.st.pool[n].driver, up3)

\* one name is unknown, and for a pooled name the probe of the pooled adapter
\* and the connect of its replacement both fail
C15_Witness ==
    /\ \E n \in ConnNames \ NamesOf(connections) :
          ~db_test_connection(get_connection(State, connections, n, << >>,
                                             GetEnv(NoProbe, NoCleanup, "ok"), now),
                              n, TRUE).ret
    /\ \E m \in DOMAIN connection_pool : \E env \in GetChoices(m, << >>) :
          /\ get_connection(State, connections, m, << >>, env, now).err = "ConnectionError"
          /\ ~db_test_connection(get_connection(State, connections, m, << >>, env, now),
                                 m, TRUE).ret

\* C16: is_connected returns true only when the cached flag was true and a
\* fresh probe passes; when the probe fails it returns false and clears the
\* flag; it changes nothing but the flag and never sets it.
C16_IsConnectedRevalidates ==
    \A n \in DOMAIN connection_pool, up \in BOOLEAN :
        LET d == connection_pool[n].driver
            r == is_connected(connection_pool[n].driver, up)
        IN /\ r.ret = (d.connected /\ perform_connection_test(d, up))
           /\ (d.connected /\ ~perform_connection_test(d, up)) => ~r.d.connected
           /\ r.ret => r.d = d
           /\ ~d.connected => r.d = d
           /\ r.d = [d EXCEPT !.connected = r.d.connected]
           /\ r.d.connected => d.connected

\* the pool holds a connected adapter whose probe fails when the backend is
\* down, and an unconnected adapter
C16_Witness ==
    \E n \in DOMAIN connection_pool, m \in DOMAIN connection_pool :
        /\ connection_pool[n].driver.connected
        /\ ~is_connected(connection_pool[n].driver, FALSE).ret
        /\ ~is_connected(connection_pool[n].driver, FALSE).d.connected
        /\ is_connected(connection_pool[n].driver, TRUE).ret
        /\ ~connection_pool[m].driver.connected

\* C17: when a name without a pooled adapter is asked for, get_connection
\* raises the error of the layers below (reading the definition,
\* constructing the adapter, connecting it) in its own kind when that kind is
\* ConfigError, ConnectionError, QueryError or DriverError and as
\* DatabaseError otherwise, and execute_query / execute_command raise the
\* QueryError of the statement as QueryError.
C17_KnownErrorsKeepTheirKind ==
    \A n \in NamesOf(connections) \ DOMAIN connection_pool : \A cenv \in ConnectEnv :
        LET cfg == CM_get(connections, n).cfg
            below == IF CM_get(connections, n).err # "none" THEN CM_get(connections, n).err
                     ELSE IF DriverInitErr(cfg) # "none" THEN DriverInitErr(cfg)
                     ELSE connect(NewDriver(made + 1, cfg, FALSE), cenv).err
            g == get_connection(State, connections, n, << >>,
                                GetEnv(NoProbe, NoCleanup, cenv), now)
        IN /\ below \in {"ConfigError", "ConnectionError", "QueryError", "DriverError"}
              => g.err = below
           /\ below \notin {"none", "ConfigError", "ConnectionError", "QueryError",
                            "DriverError"}
              => g.err = "DatabaseError"
           /\ below = "none"
              => /\ g.err = "none"
                 /\ execute(g, n, [qenv |-> "QueryError", denv2 |-> "ok"]).err = "QueryError"
                 /\ execute(g, n, [qenv |-> "ok", denv2 |-> "remove_raises"]).err
                       = "ConnectionError"

\* C18: at most one thread at a time is inside a call that changes the pool
\* table or the registry (add_connection, remove_connection,
\* update_connection, get_connection, close_connection,
\* close_all_connections, cleanup_idle_connections): the thread inside holds
\* the lock, and the pool table and the registry are as that thread left
\* them at its last step, so no other call's effects come in between.
C18_MutualExclusion ==
    /\ \A t1, t2 \in Threads : Inside(t1) /\ Inside(t2) => t1 = t2
    /\ \A t \in Threads :
          Inside(t) => /\ lock.owner = t
                       /\ lock.count = IF pc[t].step = "nested" THEN 2 ELSE 1
                       /\ Tables = pc[t].seen
    /\ (\A t \in Threads : ~Inside(t)) => lock = Unlocked

\* a thread is between the two steps of remove_connection, or inside the
\* nested close_connection of close_all_connections with the lock held
\* twice, while the pool holds an adapter and the other thread is outside
C18_Witness ==
    \E t \in Threads :
        /\ connection_pool # << >>
        /\ \/ pc[t].op = "remove_connection" /\ pc[t].step = "evicted"
           \/ pc[t].op = "close_all_connections" /\ lock.count = 2
        /\ \A u \in Threads \ {t} : ~Inside(u)

\* C19: when two threads call execute_query or execute_command on the same
\* connection name at overlapping times and the backend is healthy, the
\* statement of each call that obtained the adapter and entered
\* "with driver:" runs without an error; in particular none fails because
\* the other call's end disconnected the shared adapter.
C19_OverlapTolerated ==
    \A t \in Threads :
        pc[t].op = "execute_query" /\ pc[t].step = "queried" => pc[t].err = "none"

\* C20: for every string s, the empty string and strings with characters
\* outside ASCII or special characters included, encrypt(s) succeeds and
\* decrypt of its result succeeds and returns s, on the same engine.
C20_CryptoRoundTrip ==
    /\ crypto.step \in {"encrypted", "decrypted"} => crypto.err = "none"
    /\ crypto.step = "decrypted" => crypto.out = crypto.plain

\* C21: CryptoManager.encrypt fails with CryptoError when its input is empty
\* (or not a string).
C21_EncryptEmptyIsCryptoError ==
    crypto.step = "encrypted" /\ crypto.plain = << >> => crypto.err = "CryptoError"

C23_KeyPersistence ==
    crypto.step = "reloaded" /\ crypto.plain # << >>
    => crypto.err = "none" /\ crypto.out = crypto.plain

\* a string with a character outside ASCII went through an engine whose salt
\* needs padding in base64, and through the engine restored from its key info
C23_Witness ==
    /\ crypto.step = "reloaded"
    /\ crypto.err = "none"
    /\ \E i \in 1..Len(crypto.plain) : crypto.plain[i] = "U+6D4B"
    /\ crypto.token.key.salt = <<2, 3>>

C25_ListIsInsertionOrdered ==
    /\ [](LET names == list_connections(connections) IN
          /\ \A i, j \in 1..Len(names) : names[i] = names[j] => i = j
          /\ \A n \in ConnNames :
                (\E i \in 1..Len(names) : names[i] = n)
                <=> CM_get(connections, n).err = "none")
    /\ [][\E n \in ConnNames :
             LET rest == SelectSeq(list_connections(connections), LAMBDA x : x # n)
             IN \/ list_connections(connections') = rest
                \/ list_connections(connections') = Append(rest, n)]_vars

\* two distinct names were added to the empty registry and are listed in
\* the order in which they were added
C25_Witness ==
    /\ list_connections(connections) = <<"b", "a">>
    /\ CM_get(connections, "a").err = "none"
    /\ CM_get(connections, "b").err = "none"

\* C26: when the ciphertext of one field of a stored definition is
\* corrupted, get_connection of that name still reads every other field of
\* the definition.
C26_FieldCorruptionIsolated ==
    \A n \in NamesOf(connections) : \A k \in DOMAIN Record(connections, n) :
        LET i == CHOOSE x \in NameIndex(connections, n) : TRUE
            corrupted == [connections EXCEPT
                             ![i].fields[k] = Encrypt(EmptyToken.key, <<"x">>)]
        IN \A j \in DOMAIN Record(connections, n) \ {k} :
              /\ CM_get(corrupted, n).err = "none"
              /\ CM_get(corrupted, n).cfg[j] = CM_get(connections, n).cfg[j]

\* C27: after close_connection(n) the pool has no entry for n, after
\* close_all_connections() the pool is empty, and a second call changes
\* nothing, whatever the backend does during the calls.
C27_CloseEvictsAndIsIdempotent ==
    /\ \A n \in ConnNames : \A e \in CleanupChoices(n) :
          LET st == cleanup_connection(State, n, e.up, e.denv) IN
          /\ n \notin DOMAIN st.pool
          /\ cleanup_connection(st, n, TRUE, "ok") = st
    /\ \A f \in CleanupAllChoices :
          LET st == close_all_connections(State, f) IN
          /\ DOMAIN st.pool = {}
          /\ close_all_connections(st, [n \in ConnNames |-> NoCleanup]) = st

\* C28: ConfigManager.add_connection with an empty name, or with an empty
\* definition, fails with ConfigError and leaves the registry as it was.
C28_AddRejectsEmptyWithConfigError ==
    /\ \A cfg \in UpdateConfigs \cup {CfgEmpty} :
          CM_add(connections, "", cfg) = [err |-> "ConfigError", conns |-> connections]
    /\ \A name \in ConnNames :
          CM_add(connections, name, CfgEmpty) = [err |-> "ConfigError", conns |-> connections]

\* C29: in every state between two calls of the manager each adapter in the
\* pool is connected; so it is after execute_query or execute_command.
C29_PooledAdaptersConnected ==
    \A n \in DOMAIN connection_pool :
        /\ connection_pool[n].driver.connected
        /\ connection_pool[n].driver.engine # "None"

\* C30: in every state between two calls of the manager each name in the
\* pool has a stored definition, and the pooled adapter was constructed from
\* that definition, also when the disconnect of an old adapter failed.
C30_NoAdapterOutlivesDefinition ==
    \A n \in DOMAIN connection_pool :
        /\ HasName(connections, n)
        /\ CM_get(connections, n).err = "none"
        /\ connection_pool[n].driver.connection_config = CM_get(connections, n).cfg

\* C31: get_connection(n) without overrides pools only an adapter that is
\* connected; when the entry it finds fails the probe, a newly constructed
\* adapter with use_count 0 takes its place, and when that adapter cannot be
\* made or connected the call raises and the pool holds no entry for n.
C31_InvalidEntryReplaced ==
    \A n \in ConnNames : \A env \in GetChoices(n, << >>) :
        LET g == get_connection(State, connections, n, << >>, env, now) IN
        /\ g.err = "none" =>
              /\ n \in DOMAIN g.st.pool
              /\ g.st.pool[n].driver.connected
        /\ g.probe = "fail" /\ g.err = "none" =>
              /\ g.st.pool[n].driver.id = made + 1
              /\ g.st.pool[n].use_count = 0
        /\ g.probe = "fail" /\ g.err # "none" => n \notin DOMAIN g.st.pool

\* C32: when several threads call get_connection(n) without overrides at
\* the same time, the pool has no entry for n and the backend is healthy,
\* one adapter is constructed and pooled for n, every caller receives that
\* adapter, and total_connections_created counts it once.
C32_FirstUseCreatesOne ==
    /\ \A t \in Threads :
          pc[t].op = "returned" /\ pc[t].err = "none" =>
             /\ pc[t].name \in DOMAIN connection_pool
             /\ pc[t].seen = connection_pool[pc[t].name].driver.id
    /\ Cardinality(PooledIds(connection_pool)) = Cardinality(DOMAIN connection_pool)
    /\ made = Cardinality(DOMAIN connection_pool)
    /\ statistics.total_connections_created = Cardinality(DOMAIN connection_pool)

\* both threads have called get_connection of the same name and both hold
\* the one adapter that was constructed, the second by reuse
C32_Witness ==
    /\ \A t \in Threads : pc[t].op = "returned" /\ pc[t].err = "none" /\ pc[t].name = "a"
    /\ made = 1
    /\ connection_pool["a"].use_count = 1

\* C33: when get_connection(n, overrides) with non-empty overrides returns
\* or raises, the pool holds no entry for n, and the entries of all other
\* names are as they were.
C33_OverridesEvict ==
    \A n \in ConnNames : \A over \in Overrides \ {<< >>} :
    \A env \in GetChoices(n, over) :
        LET g == get_connection(State, connections, n, over, env, now) IN
        /\ n \notin DOMAIN g.st.pool
        /\ DOMAIN g.st.pool \ {n} = DOMAIN connection_pool \ {n}
        /\ \A m \in DOMAIN connection_pool \ {n} : g.st.pool[m] = connection_pool[m]

\* C34: cleanup_idle_connections(t) removes exactly the pool entries that
\* have been idle for longer than t, leaves every other entry as it was, and
\* returns the number of entries it removed from the pool.
C34_CleanupIdleExact ==
    \A max_idle_time \in IdleThresholds : \A f \in CleanupAllChoices :
        LET r == cleanup_idle_connections(State, now, max_idle_time, f)
            idle == {n \in DOMAIN connection_pool :
                        now - connection_pool[n].last_used > max_idle_time}
        IN /\ DOMAIN r.st.pool = DOMAIN connection_pool \ idle
           /\ \A n \in DOMAIN connection_pool \ idle : r.st.pool[n] = connection_pool[n]
           /\ r.count = Cardinality(DOMAIN connection_pool \ DOMAIN r.st.pool)

\* C35: an update_connection(n, d2) that raises ConfigError, because n has
\* no definition or d2 fails the basic validation, leaves the stored
\* definitions and the pool as they were.
C35_RejectedUpdateChangesNothing ==
    \A n \in ConnNames : \A d2 \in Configs : \A e \in CleanupChoices(n) :
        LET r == update_connection(State, connections, n, d2, e.up, e.denv) IN
        r.err = "ConfigError" => r.st = State /\ r.conns = connections

\* a name with a stored definition and a connected pooled adapter, and an
\* update of it that is rejected with ConfigError by the basic validation
C35_Witness ==
    \E n \in DOMAIN connection_pool : \E d2 \in Configs :
        /\ HasName(connections, n)
        /\ connection_pool[n].driver.connected
        /\ validate_basic_config(d2).err = "ConfigError"
        /\ update_connection(State, connections, n, d2, TRUE, "ok").err = "ConfigError"

\* C36: in every state between two calls of the manager,
\* total_connections_created minus total_connections_closed is the number
\* of entries in the pool, also after calls in which a connect or a
\* disconnect failed.
C36_StatisticsMatchPool ==
    statistics.total_connections_created - statistics.total_connections_closed
        = Cardinality(DOMAIN connection_pool)

\* C37: an adapter that the manager removes from the pool ends disconnected
\* with its engine disposed, also when its liveness probe has just failed.
\* The adapter removed by _cleanup_connection is the pooled one after
\* is_connected and, when that returned True, after disconnect().
C37_EvictionReleasesEngine ==
    \A n \in DOMAIN connection_pool : \A e \in CleanupChoices(n) :
        LET ic == is_connected(connection_pool[n].driver, e.up)
            removed == IF ic.ret THEN disconnect(ic.d, e.denv).d ELSE ic.d
        IN n \notin DOMAIN cleanup_connection(State, n, e.up, e.denv).pool
           => ~removed.connected /\ removed.engine = "None"

\* C38: every call gives the manager lock back when it returns or raises
\* (the lock is held exactly by a thread that is inside a body, twice while
\* close_all_connections is in its nested close_connection and once
\* otherwise), and with terminating backend calls and fair scheduling every
\* thread that has called a method of the manager completes the call.
C38_LockReleasedAndProgress ==
    /\ [](\A t \in Threads :
            /\ lock.owner = t <=> Inside(t)
            /\ Inside(t) => lock.count = IF pc[t].step = "nested" THEN 2 ELSE 1)
    /\ [](lock.owner = "none" => lock.count = 0)
    /\ \A t \in Threads : (pc[t].op # "none") ~> (pc[t].op = "none")

\* one thread is in the close_connection that close_all_connections called,
\* holding the lock twice, while the other thread waits for the lock
C38_Witness ==
    \E t, u \in Threads :
        /\ pc[t].op = "close_all_connections" /\ pc[t].step = "nested"
        /\ lock = [owner |-> t, count |-> 2]
        /\ pc[u].op = "waiting"

\* the components of a stored version x.y.z
MajorOf(version) == ParseInt(SplitDots(version)[1])

MinorOf(version) == ParseInt(SplitDots(version)[2])

PatchOf(version) == ParseInt(SplitDots(version)[3])

WellFormedVersion(version) ==
    /\ Len(SplitDots(version)) = 3
    /\ \A i \in 1..3 : IsDecimal(SplitDots(version)[i])
    /\ version = FormatInt(MajorOf(version)) \o <<".">> \o FormatInt(MinorOf(version))
                    \o <<".">> \o FormatInt(PatchOf(version))

C40_NeverBlockedByHistory ==
    \A name \in ConnNames, cfg \in ToolConfigs :
        /\ ~HasName(tool_config.connections, name)
              => Tool_add(tool_config, name, cfg).err = "none"
        /\ HasName(tool_config.connections, name)
              => HasName(Tool_update(tool_config, name, cfg).config.connections, name)

====
